---- MODULE Spec2Model ----
(***************************************************************************)
(* Reconciliation modules of the API-gateway collection: apigw_api_key,    *)
(* apigw_model, apigw_stage (plugins/modules) and, from their unit tests   *)
(* and the specification, apigw_resource and apigw_usage_plan_key.         *)
(*                                                                         *)
(* One behaviour is a series of invocations of one module with the same    *)
(* parameters (a task that is run, and run again) against the provider.    *)
(* Every step of an invocation is one provider call together with the      *)
(* local code around it.  Python's None is the empty tuple <<>>, a value v *)
(* that may be None is <<v>>; a dict is a record whose DOMAIN is its keys. *)
(***************************************************************************)
EXTENDS Integers, Sequences, FiniteSets, TLC

VARIABLES
    mod,         \* the module the task runs
    aws,         \* the provider's objects (the apigateway service)
    params,      \* module.params
    check_mode,  \* module.check_mode
    me,          \* self.me / self.model / self.stage / self.path_map: what the lookup found
    work,        \* locals: the patches a diff builder returned; apigw_resource: the walk
    pc,          \* position of the invocation
    calls,       \* client calls issued by this invocation, in order
    outcome,     \* how the invocation ended
    result,      \* the arguments of exit_json
    runs,        \* invocations started so far
    hist,        \* what the earlier invocations of the task did
    answer       \* what the provider answered to the lookup of this invocation

vars == <<mod, aws, params, check_mode, me, work, pc, calls, outcome, result, runs,
          hist, answer>>

----------------------------------------------------------------------------
(* Bounds *)

MaxKeys == 2
MaxRuns == 2

----------------------------------------------------------------------------
(* Python values *)

None == <<>>
Some(v) == <<v>>
Val(o) == o[1]

\* a bool written as JSON writes it
PyStrBool_json(b) == IF b THEN "true" ELSE "false"

\* str() of a bool
PyStrBool(b) == IF b THEN "True" ELSE "False"
\* str() of a str
PyStrStr(s) == s

Last(s) == s[Len(s)]

SetMax(S) == CHOOSE x \in S : \A y \in S : y <= x

RECURSIVE SelectSeq2(_, _)
\* the subsequence of s at the positions in keep
SelectSeq2(s, keep) ==
    IF s = <<>> THEN <<>>
    ELSE LET rest == SelectSeq2(Tail(s), {i - 1 : i \in keep \ {1}})
         IN  IF 1 \in keep THEN <<Head(s)>> \o rest ELSE rest

Call(op, args) == [op |-> op, args |-> args]

MutatingOps ==
    {"create_api_key", "update_api_key", "delete_api_key",
     "create_model", "update_model", "delete_model",
     "update_stage", "delete_stage", "create_stage",
     "create_resource", "delete_resource",
     "create_usage_plan_key", "delete_usage_plan_key"}

Issued(op) == {i \in 1..Len(calls) : calls[i].op = op}
Mutations == {i \in 1..Len(calls) : calls[i].op \in MutatingOps}

NoResult == [changed |-> FALSE, object |-> None]

\* module.exit_json(changed=..., <object>=...)
exit_json(ch, obj) ==
    /\ pc' = "done"
    /\ outcome' = "exit_json"
    /\ result' = [changed |-> ch, object |-> obj]

\* a fail_json that returns to its caller, as a mocked one does
fail_json_returning ==
    /\ pc' = pc
    /\ outcome' = "fail_json"
    /\ result' = NoResult

\* a failure handler that starts the invocation over instead of ending it
fail_json_retrying ==
    /\ pc' = "lookup"
    /\ outcome' = outcome
    /\ result' = result

\* module.fail_json(msg=...): the process ends with a failure
fail_json ==
    /\ pc' = "done"
    /\ outcome' = "fail_json"
    /\ result' = NoResult

\* an exception no handler of the module catches: the process dies
uncaught ==
    /\ pc' = "done"
    /\ outcome' = "exception"
    /\ result' = NoResult

----------------------------------------------------------------------------
(* The provider's api keys *)

NameTails == {"", "k"}
DescParams == {None, Some(""), Some("d"), Some("e")}
ValueParams == {None, Some(""), Some("v")}

\* the service's partial-match filter of get_api_keys(nameQuery=q)
StartsWith(n, q) == \E t \in NameTails : n = q \o t

\* keys of the name asked for, in every shape, and one key whose name only
\* matches the name query
ApiKeyItems ==
    [id : {0}, name : {"k"}, enabled : BOOLEAN, value : {"v0"}]
    \cup [id : {0}, name : {"k"}, enabled : BOOLEAN, value : {"v0"},
          description : {"d"}]
    \cup [id : {0}, name : {"kk"}, enabled : {TRUE}, value : {"v0"},
          description : {"d"}]

\* a listing of n keys, the i-th with id i
ApiKeyListings(n) ==
    {[i \in 1..n |-> [s[i] EXCEPT !.id = i]] : s \in [1..n -> ApiKeyItems]}

\* with state=absent the module reads the name alone
ApiKeyParams ==
    [name : {"k"}, description : DescParams, value : ValueParams,
     enabled : BOOLEAN, generate_distinct_id : BOOLEAN, state : {"present"}]
    \cup [name : {"k"}, description : {None, Some("d")}, value : {None},
          enabled : BOOLEAN, generate_distinct_id : {FALSE}, state : {"absent"}]

\* get_api_keys(nameQuery=q, includeValues=True)['items']
AwsGetApiKeys(q) ==
    SelectSeq2(aws.api_keys,
               {i \in 1..Len(aws.api_keys) : StartsWith(aws.api_keys[i].name, q)})

\* the key the service stores for create_api_key(**args)
AwsNewApiKey(args, id) ==
    LET base == [id |-> id, name |-> args.name, enabled |-> args.enabled,
                 value |-> IF "value" \in DOMAIN args THEN args.value ELSE "gen"]
    IN  IF "description" \in DOMAIN args /\ args.description # ""
        THEN base @@ [description |-> args.description]
        ELSE base

\* one patch operation applied to a stored key; an empty description is
\* dropped from the service's representation
AwsPatchApiKey(key, patch) ==
    IF patch.path = "/enabled" THEN [key EXCEPT !.enabled = (patch.value = "True")]
    ELSE IF patch.path = "/description"
    THEN IF patch.value = ""
         THEN [f \in DOMAIN key \ {"description"} |-> key[f]]
         ELSE [f \in DOMAIN key \cup {"description"} |->
                 IF f = "description" THEN patch.value ELSE key[f]]
    ELSE key

RECURSIVE AwsPatchAllApiKey(_, _)
AwsPatchAllApiKey(key, patches) ==
    IF patches = <<>> THEN key
    ELSE AwsPatchAllApiKey(AwsPatchApiKey(key, Head(patches)), Tail(patches))

----------------------------------------------------------------------------
(* apigw_api_key *)

\* the loop without its comparison: the last item the name query returned
ApiGwApiKey_match_any(items, name) ==
    IF items = <<>> THEN None ELSE Some(items[Len(items)])

\* the loop of _retrieve_api_key: the last item whose name is the name asked for
ApiGwApiKey_match(items, name) ==
    LET hits == {i \in 1..Len(items) : items[i].name = name}
    IN  IF hits = {} THEN None ELSE Some(items[SetMax(hits)])

\* _create_api_key without its test for the empty string: description and
\* value are passed whenever they are not None
ApiGwApiKey_create_args_keeping_empty(p) ==
    LET args == [name |-> p.name, enabled |-> p.enabled,
                 generateDistinctId |-> p.generate_distinct_id]
        withDesc == IF p.description # None
                    THEN args @@ [description |-> Val(p.description)]
                    ELSE args
    IN  IF p.value # None
        THEN withDesc @@ [value |-> Val(p.value)]
        ELSE withDesc

\* the arguments _create_api_key builds
ApiGwApiKey_create_args(p) ==
    LET args == [name |-> p.name, enabled |-> p.enabled,
                 generateDistinctId |-> p.generate_distinct_id]
        withDesc == IF p.description \notin {None, Some("")}
                    THEN args @@ [description |-> Val(p.description)]
                    ELSE args
    IN  IF p.value \notin {None, Some("")}
        THEN withDesc @@ [value |-> Val(p.value)]
        ELSE withDesc

\* the round for 'enabled' without its comparison: a patch whenever the
\* parameter is given
ApiGwApiKey_patch_enabled_always(p, m) ==
    <<[op |-> "replace", path |-> "/enabled", value |-> PyStrBool(p.enabled)]>>

\* one round of the loop of _create_patches, param = 'enabled' (a bool, never None)
ApiGwApiKey_patch_enabled(p, m) ==
    IF \/ "enabled" \notin DOMAIN m
       \/ PyStrBool(p.enabled) # PyStrBool(m.enabled)
    THEN <<[op |-> "replace", path |-> "/enabled", value |-> PyStrBool(p.enabled)]>>
    ELSE <<>>

\* the round for 'description' without the suppression of an empty description
\* the key does not have
ApiGwApiKey_patch_description_unsuppressed(p, m) ==
    IF /\ p.description # None
       /\ \/ "description" \notin DOMAIN m
          \/ PyStrStr(Val(p.description)) # PyStrStr(m.description)
    THEN <<[op |-> "replace", path |-> "/description",
            value |-> PyStrStr(Val(p.description))]>>
    ELSE <<>>

\* the round for 'description' suppressing every empty description, whether
\* or not the key has one
ApiGwApiKey_patch_description_never_empty(p, m) ==
    IF /\ p.description # None
       /\ \/ "description" \notin DOMAIN m
          \/ PyStrStr(Val(p.description)) # PyStrStr(m.description)
    THEN IF Val(p.description) = ""
         THEN <<>>
         ELSE <<[op |-> "replace", path |-> "/description",
                 value |-> PyStrStr(Val(p.description))]>>
    ELSE <<>>

\* one round of the loop of _create_patches, param = 'description'
ApiGwApiKey_patch_description(p, m) ==
    IF /\ p.description # None
       /\ \/ "description" \notin DOMAIN m
          \/ PyStrStr(Val(p.description)) # PyStrStr(m.description)
    THEN IF Val(p.description) = "" /\ "description" \notin DOMAIN m
         THEN <<>>
         ELSE <<[op |-> "replace", path |-> "/description",
                 value |-> PyStrStr(Val(p.description))]>>
    ELSE <<>>

\* a builder whose loop also goes over 'value'
ApiGwApiKey_create_patches_with_value(p, m) ==
    ApiGwApiKey_patch_enabled(p, m) \o ApiGwApiKey_patch_description(p, m)
    \o (IF p.value # None /\ PyStrStr(Val(p.value)) # PyStrStr(m.value)
        THEN <<[op |-> "replace", path |-> "/value", value |-> PyStrStr(Val(p.value))]>>
        ELSE <<>>)

\* a builder whose list outlives the call: the patches of the invocation before
\* are still in it
ApiGwApiKey_create_patches_kept(p, m) ==
    (IF hist.patches = None THEN <<>> ELSE Val(hist.patches))
    \o ApiGwApiKey_patch_enabled(p, m) \o ApiGwApiKey_patch_description(p, m)

\* _create_patches(params, me): a new list, the rounds of the loop in order
ApiGwApiKey_create_patches(p, m) ==
    ApiGwApiKey_patch_enabled(p, m) \o ApiGwApiKey_patch_description(p, m)

\* the branch process_request takes
ApiGwApiKey_branch(p, o) ==
    IF p.state = "absent" /\ o # None THEN "delete"
    ELSE IF p.state = "present"
    THEN IF o = None THEN "create" ELSE "update"
    ELSE "none"

\* delete_api_key(apiKey=self.me['id'])
ApiGwApiKey_delete_call(m) == Call("delete_api_key", [apiKey |-> m.id])

\* update_api_key carrying the first patch only
ApiGwApiKey_update_call_first_patch(m, patches) ==
    Call("update_api_key", [apiKey |-> m.id, patchOperations |-> <<Head(patches)>>])

\* update_api_key(apiKey=self.me['id'], patchOperations=patches)
ApiGwApiKey_update_call(m, patches) ==
    Call("update_api_key", [apiKey |-> m.id, patchOperations |-> patches])

\* _update_api_key with api_key starting as None
ApiGwApiKey_update_locals_none(o) == [changed |-> FALSE, api_key |-> None]

\* what _update_api_key returns unless an update is made: api_key = self.me,
\* changed = False
ApiGwApiKey_update_locals(o) == [changed |-> FALSE, api_key |-> o]

ApiGwApiKey_retrieve_api_key ==
    /\ mod = "api_key"
    /\ pc = "lookup"
    /\ calls' = Append(calls, Call("get_api_keys",
                                   [nameQuery |-> params.name, includeValues |-> TRUE]))
    /\ \/ fail_json /\ answer' = "BotoCoreError" /\ UNCHANGED me
       \/ uncaught /\ answer' = "ClientError" /\ UNCHANGED me
       \/ /\ me' = ApiGwApiKey_match(AwsGetApiKeys(params.name), params.name)
          /\ pc' = "dispatch"
          /\ answer' = "ok"
          /\ UNCHANGED <<outcome, result>>
    /\ UNCHANGED <<mod, aws, params, check_mode, work, runs, hist>>

ApiGwApiKey_delete_api_key ==
    /\ mod = "api_key"
    /\ pc = "dispatch"
    /\ ApiGwApiKey_branch(params, me) = "delete"
    /\ IF ~check_mode
       THEN /\ calls' = Append(calls, ApiGwApiKey_delete_call(Val(me)))
            /\ \/ fail_json /\ UNCHANGED aws
               \/ uncaught /\ UNCHANGED aws
               \/ /\ aws' = [aws EXCEPT !.api_keys =
                               SelectSeq2(@, {i \in 1..Len(@) : @[i].id # Val(me).id})]
                  /\ exit_json(TRUE, None)
       ELSE /\ exit_json(TRUE, None)
            /\ UNCHANGED <<calls, aws>>
    /\ UNCHANGED <<mod, params, check_mode, me, work, runs, hist, answer>>

ApiGwApiKey_create_api_key ==
    /\ mod = "api_key"
    /\ pc = "dispatch"
    /\ ApiGwApiKey_branch(params, me) = "create"
    /\ IF ~check_mode
       THEN LET args == ApiGwApiKey_create_args(params)
                key == AwsNewApiKey(args, aws.next_id)
            IN  /\ calls' = Append(calls, Call("create_api_key", args))
                /\ \/ fail_json /\ UNCHANGED aws
                   \/ uncaught /\ UNCHANGED aws
                   \/ /\ aws' = [aws EXCEPT !.api_keys = Append(@, key),
                                            !.next_id = @ + 1]
                      /\ exit_json(TRUE, Some(key))
       ELSE /\ exit_json(TRUE, None)
            /\ UNCHANGED <<calls, aws>>
    /\ UNCHANGED <<mod, params, check_mode, me, work, runs, hist, answer>>

ApiGwApiKey_update_api_key ==
    /\ mod = "api_key"
    /\ pc = "dispatch"
    /\ ApiGwApiKey_branch(params, me) = "update"
    /\ LET patches == ApiGwApiKey_create_patches(params, Val(me))
       IN  /\ work' = Some(patches)
           /\ IF patches # <<>>
              THEN IF ~check_mode
                   THEN /\ calls' = Append(calls, ApiGwApiKey_update_call(Val(me), patches))
                        /\ \/ fail_json /\ UNCHANGED aws
                           \/ uncaught /\ UNCHANGED aws
                           \/ /\ aws' = [aws EXCEPT !.api_keys =
                                    [i \in 1..Len(@) |->
                                       IF @[i].id = Val(me).id
                                       THEN AwsPatchAllApiKey(@[i], patches) ELSE @[i]]]
                              /\ pc' = "refetch"
                              /\ UNCHANGED <<outcome, result>>
                   ELSE /\ exit_json(TRUE, ApiGwApiKey_update_locals(me).api_key)
                        /\ UNCHANGED <<calls, aws>>
              ELSE /\ exit_json(ApiGwApiKey_update_locals(me).changed,
                                ApiGwApiKey_update_locals(me).api_key)
                   /\ UNCHANGED <<calls, aws>>
    /\ UNCHANGED <<mod, params, check_mode, me, runs, hist, answer>>

\* the _retrieve_api_key that follows a successful update_api_key
ApiGwApiKey_update_refetch ==
    /\ mod = "api_key"
    /\ pc = "refetch"
    /\ calls' = Append(calls, Call("get_api_keys",
                                   [nameQuery |-> params.name, includeValues |-> TRUE]))
    /\ \/ fail_json
       \/ uncaught
       \/ exit_json(TRUE, ApiGwApiKey_match(AwsGetApiKeys(params.name), params.name))
    /\ UNCHANGED <<mod, aws, params, check_mode, me, work, runs, hist, answer>>

\* process_request when neither branch applies: state=absent, nothing found
ApiGwApiKey_process_request_noop ==
    /\ mod = "api_key"
    /\ pc = "dispatch"
    /\ ApiGwApiKey_branch(params, me) = "none"
    /\ exit_json(FALSE, None)
    /\ UNCHANGED <<mod, aws, params, check_mode, me, calls, work, runs, hist, answer>>

ApiGwApiKey_process_request ==
    \/ ApiGwApiKey_retrieve_api_key
    \/ ApiGwApiKey_delete_api_key
    \/ ApiGwApiKey_create_api_key
    \/ ApiGwApiKey_update_api_key
    \/ ApiGwApiKey_update_refetch
    \/ ApiGwApiKey_process_request_noop

----------------------------------------------------------------------------
(* The provider's models (one rest api, one model name) *)

ContentTypeParams == {None, Some("application/json")}
SchemaParams == {None, Some("s1"), Some("s2")}

ModelItems ==
    [id : {"m1"}, name : {"m"}, schema : {"s1", "s2"}, contentType : {"application/json"}]
    \cup [id : {"m1"}, name : {"m"}, schema : {"s1", "s2"},
          contentType : {"application/json"}, description : {"d"}]

\* description has the default '' and is never None
ModelParams ==
    [rest_api_id : {"api"}, name : {"m"}, content_type : ContentTypeParams,
     schema : SchemaParams, description : {Some(""), Some("d"), Some("e")},
     state : {"present", "absent"}]

\* boto3 validates the arguments before it sends anything: a None where a
\* string is expected raises ParamValidationError, a BotoCoreError
HasNoneArg(args) == \E f \in DOMAIN args : args[f] = None

\* the model the service stores for create_model(**args); every argument is a
\* string here and an empty description is dropped from the representation
AwsNewModel(args) ==
    LET base == [id |-> "m1", name |-> Val(args.name), schema |-> Val(args.schema),
                 contentType |-> Val(args.contentType)]
    IN  IF Val(args.description) # ""
        THEN base @@ [description |-> Val(args.description)]
        ELSE base

AwsPatchModel(mdl, patch) ==
    IF patch.path = "/schema" THEN [mdl EXCEPT !.schema = Val(patch.value)]
    ELSE IF patch.path = "/description"
    THEN IF Val(patch.value) = ""
         THEN [f \in DOMAIN mdl \ {"description"} |-> mdl[f]]
         ELSE [f \in DOMAIN mdl \cup {"description"} |->
                 IF f = "description" THEN Val(patch.value) ELSE mdl[f]]
    ELSE mdl

RECURSIVE AwsPatchAllModel(_, _)
AwsPatchAllModel(mdl, patches) ==
    IF patches = <<>> THEN mdl
    ELSE AwsPatchAllModel(AwsPatchModel(mdl, Head(patches)), Tail(patches))

----------------------------------------------------------------------------
(* apigw_model *)

ApiGwModel_patch_builder(p) ==
    <<[op |-> "replace", path |-> "/schema", value |-> p.schema],
      [op |-> "replace", path |-> "/description", value |-> p.description]>>

\* the comparison that opens _update_model: True when nothing is to be updated
ApiGwModel_update_unneeded(p, m) ==
    LET description == IF "description" \in DOMAIN m THEN Some(m.description) ELSE None
        moduleDescription == p.description
    IN  p.schema = Some(m.schema) /\ description = moduleDescription

ApiGwModel_create_args(p) ==
    [restApiId |-> Some(p.rest_api_id), name |-> Some(p.name),
     contentType |-> p.content_type, schema |-> p.schema,
     description |-> p.description]

\* process_request of apigw_model without its first test: state=absent always
\* deletes
ApiGwModel_branch_always_delete(p, o) ==
    IF p.state = "absent" THEN "delete"
    ELSE IF o = None THEN "create"
    ELSE "update"

\* the branch process_request takes
ApiGwModel_branch(p, o) ==
    IF p.state = "absent" /\ o = None THEN "none"
    ELSE IF p.state = "absent" THEN "delete"
    ELSE IF o = None THEN "create"
    ELSE "update"

\* "return False, None" of _update_model
ApiGwModel_update_unchanged == [changed |-> FALSE, response |-> None]

\* _update_model reporting no change under check mode
ApiGwModel_update_check_unchanged == [changed |-> FALSE, response |-> None]

\* "return True, None" of _update_model, under check mode
ApiGwModel_update_check == [changed |-> TRUE, response |-> None]

\* delete_model with its two arguments swapped
ApiGwModel_delete_call_swapped(p) ==
    Call("delete_model", [restApiId |-> p.name, modelName |-> p.rest_api_id])

\* delete_model(restApiId=..., modelName=...)
ApiGwModel_delete_call(p) ==
    Call("delete_model", [restApiId |-> p.rest_api_id, modelName |-> p.name])

\* get_model: any ClientError is taken for "no such model"; a BotoCoreError is
\* not handled
ApiGwModel_find_model ==
    /\ mod = "model"
    /\ pc = "lookup"
    /\ calls' = Append(calls, Call("get_model",
                  [restApiId |-> params.rest_api_id, modelName |-> params.name,
                   flatten |-> TRUE]))
    /\ \/ /\ me' = aws.model
          /\ answer' = IF aws.model = None THEN "NotFoundException" ELSE "ok"
          /\ pc' = "dispatch"
          /\ UNCHANGED <<outcome, result>>
       \/ /\ me' = None          \* a ClientError that is not NotFoundException
          /\ answer' = "ClientError"
          /\ pc' = "dispatch"
          /\ UNCHANGED <<outcome, result>>
       \/ uncaught /\ answer' = "BotoCoreError" /\ UNCHANGED me
    /\ UNCHANGED <<mod, aws, params, check_mode, work, runs, hist>>

\* state=absent and no model
ApiGwModel_process_request_noop ==
    /\ mod = "model"
    /\ pc = "dispatch"
    /\ ApiGwModel_branch(params, me) = "none"
    /\ exit_json(FALSE, None)
    /\ UNCHANGED <<mod, aws, params, check_mode, me, calls, work, runs, hist, answer>>

\* a ClientError of delete_model is examined through e.message, which Python 2
\* has and Python 3 has not: the handler calls fail_json or dies of
\* AttributeError (NotFoundException cannot come back for a model just found)
ApiGwModel_delete_model ==
    /\ mod = "model"
    /\ pc = "dispatch"
    /\ ApiGwModel_branch(params, me) = "delete"
    /\ IF ~check_mode
       THEN /\ calls' = Append(calls, ApiGwModel_delete_call(params))
            /\ \/ /\ aws' = [aws EXCEPT !.model = None]
                  /\ exit_json(TRUE, None)
               \/ fail_json /\ UNCHANGED aws
               \/ uncaught /\ UNCHANGED aws
       ELSE /\ exit_json(TRUE, None)
            /\ UNCHANGED <<calls, aws>>
    /\ UNCHANGED <<mod, params, check_mode, me, work, runs, hist, answer>>

ApiGwModel_create_model ==
    /\ mod = "model"
    /\ pc = "dispatch"
    /\ ApiGwModel_branch(params, me) = "create"
    /\ IF check_mode
       THEN /\ exit_json(TRUE, None)
            /\ UNCHANGED <<calls, aws>>
       ELSE LET args == ApiGwModel_create_args(params)
            IN  /\ calls' = Append(calls, Call("create_model", args))
                /\ \/ /\ ~HasNoneArg(args)
                      /\ aws.model = None
                      /\ aws' = [aws EXCEPT !.model = Some(AwsNewModel(args))]
                      /\ exit_json(TRUE, Some(AwsNewModel(args)))
                   \/ /\ ~HasNoneArg(args)  \* ClientError, e.g. ConflictException
                      /\ fail_json
                      /\ UNCHANGED aws
                   \/ uncaught /\ UNCHANGED aws
    /\ UNCHANGED <<mod, params, check_mode, me, work, runs, hist, answer>>

ApiGwModel_update_model ==
    /\ mod = "model"
    /\ pc = "dispatch"
    /\ ApiGwModel_branch(params, me) = "update"
    /\ IF ApiGwModel_update_unneeded(params, Val(me))
       THEN /\ exit_json(ApiGwModel_update_unchanged.changed,
                         ApiGwModel_update_unchanged.response)
            /\ UNCHANGED <<calls, aws>>
       ELSE IF check_mode
       THEN /\ exit_json(ApiGwModel_update_check.changed,
                         ApiGwModel_update_check.response)
            /\ UNCHANGED <<calls, aws>>
       ELSE LET patches == ApiGwModel_patch_builder(params)
                patched == AwsPatchAllModel(Val(aws.model), patches)
            IN  /\ calls' = Append(calls, Call("update_model",
                      [restApiId |-> params.rest_api_id, modelName |-> params.name,
                       patchOperations |-> patches]))
                /\ \/ /\ \A i \in 1..Len(patches) : patches[i].value # None
                      /\ aws.model # None
                      /\ aws' = [aws EXCEPT !.model = Some(patched)]
                      /\ exit_json(TRUE, Some(patched))
                   \/ /\ \A i \in 1..Len(patches) : patches[i].value # None
                      /\ fail_json            \* ClientError
                      /\ UNCHANGED aws
                   \/ uncaught /\ UNCHANGED aws
    /\ UNCHANGED <<mod, params, check_mode, me, work, runs, hist, answer>>

ApiGwModel_process_request ==
    \/ ApiGwModel_find_model
    \/ ApiGwModel_process_request_noop
    \/ ApiGwModel_delete_model
    \/ ApiGwModel_create_model
    \/ ApiGwModel_update_model

----------------------------------------------------------------------------
(* The provider's stages (one rest api, one stage name) *)

\* a method name is a tuple of characters, so that re.sub can be modelled
SlashT == <<"/", "t">>
SlashTSlashU == <<"/", "t", "/", "u">>

MethodSettingsParams ==
    {<<>>,
     <<[method_name |-> SlashT, method_verb |-> "GET", caching_enabled |-> TRUE]>>,
     <<[method_name |-> SlashT, method_verb |-> "GET", caching_enabled |-> FALSE]>>,
     <<[method_name |-> SlashT, method_verb |-> "GET"]>>,
     <<[method_name |-> SlashTSlashU, method_verb |-> "PUT", caching_enabled |-> FALSE],
       [method_name |-> SlashT, method_verb |-> "GET", caching_enabled |-> TRUE]>>}

\* with state=absent the module reads rest_api_id and name alone
StageParams ==
    [name : {"dev"}, rest_api_id : {"api"}, description : DescParams,
     cache_cluster_enabled : {None, Some(TRUE), Some(FALSE)},
     cache_cluster_size : {None, Some("0.5"), Some("1.6")},
     method_settings : MethodSettingsParams, state : {"present"}]
    \cup [name : {"dev"}, rest_api_id : {"api"}, description : {None, Some("d")},
          cache_cluster_enabled : {None}, cache_cluster_size : {None},
          method_settings : {<<>>}, state : {"absent"}]

StageMethodSettings ==
    {<<>>,
     ("*/*" :> [cachingEnabled |-> TRUE]) @@ ("~1t/GET" :> [cachingEnabled |-> TRUE]),
     ("*/*" :> [cachingEnabled |-> TRUE]) @@ ("~1t/GET" :> [cachingEnabled |-> FALSE])}

StageItems ==
    UNION {
      {base, base @@ [description |-> "d"], base @@ [cacheClusterSize |-> "0.5"],
       base @@ [description |-> "d", cacheClusterSize |-> "0.5"]} :
      base \in [stageName : {"dev"}, cacheClusterEnabled : BOOLEAN,
                methodSettings : StageMethodSettings]}

----------------------------------------------------------------------------
(* apigw_stage: the patch builder *)

\* a substitution that replaces the first '/' only
re_sub_first_slash(name) ==
    IF name = <<>> THEN ""
    ELSE LET rest == [i \in 1..(Len(name) - 1) |-> name[i + 1]]
             Join[t \in Seq({"/", "t", "u"})] ==
                 IF t = <<>> THEN "" ELSE Head(t) \o Join[Tail(t)]
         IN  IF Head(name) = "/" THEN "~1" \o Join[rest]
             ELSE Head(name) \o Join[rest]

RECURSIVE re_sub_slash(_)
\* re.sub('/', '~1', name)
re_sub_slash(name) ==
    IF name = <<>> THEN ""
    ELSE (IF Head(name) = "/" THEN "~1" ELSE Head(name)) \o re_sub_slash(Tail(name))

\* "{0}/{1}".format(re.sub('/', '~1', m['method_name']), m['method_verb'])
method_key(m) == re_sub_slash(m.method_name) \o "/" \o m.method_verb

\* m.get('caching_enabled', False)
caching_enabled(m) ==
    IF "caching_enabled" \in DOMAIN m THEN m.caching_enabled ELSE FALSE

create_patch(path, value) ==
    [op |-> "replace", path |-> "/" \o path, value |-> value]

\* a round that resets a field of the stage the user did not supply
build_patch_arg_resetting(stage, boto_param, given, seen) ==
    IF given # None
    THEN IF boto_param \in DOMAIN stage /\ Val(given) = seen
         THEN <<>>
         ELSE <<create_patch(boto_param, Val(given))>>
    ELSE IF boto_param \in DOMAIN stage
         THEN <<create_patch(boto_param, "")>>
         ELSE <<>>

\* one round of the first loop of build_patch_args; given and seen are the
\* str() of the parameter and of the stage's value
build_patch_arg(stage, boto_param, given, seen) ==
    IF given # None
    THEN IF boto_param \in DOMAIN stage /\ Val(given) = seen
         THEN <<>>
         ELSE <<create_patch(boto_param, Val(given))>>
    ELSE <<>>

RECURSIVE build_patch_methods(_, _)
\* the loop over params['method_settings']
build_patch_methods(stg_methods, ms) ==
    IF ms = <<>> THEN <<>>
    ELSE LET m == Head(ms)
             k == method_key(m)
             one == IF \/ k \notin DOMAIN stg_methods
                       \/ PyStrBool(stg_methods[k].cachingEnabled)
                            # PyStrBool(caching_enabled(m))
                    THEN <<create_patch(k \o "/caching/enabled",
                                        PyStrBool(caching_enabled(m)))>>
                    ELSE <<>>
         IN  one \o build_patch_methods(stg_methods, Tail(ms))

\* the patch list of build_patch_args; o is self.stage (None or a stage)
build_patches(o, p) ==
    LET stage == IF o = None THEN <<>> ELSE Val(o)
        stg_methods == IF "methodSettings" \in DOMAIN stage
                       THEN stage.methodSettings ELSE <<>>
    IN  build_patch_arg(stage, "description",
            IF p.description = None THEN None ELSE Some(PyStrStr(Val(p.description))),
            IF "description" \in DOMAIN stage THEN PyStrStr(stage.description) ELSE "")
        \o build_patch_arg(stage, "cacheClusterEnabled",
            IF p.cache_cluster_enabled = None THEN None
            ELSE Some(PyStrBool(Val(p.cache_cluster_enabled))),
            IF "cacheClusterEnabled" \in DOMAIN stage
            THEN PyStrBool(stage.cacheClusterEnabled) ELSE "")
        \o build_patch_arg(stage, "cacheClusterSize",
            IF p.cache_cluster_size = None THEN None
            ELSE Some(PyStrStr(Val(p.cache_cluster_size))),
            IF "cacheClusterSize" \in DOMAIN stage
            THEN PyStrStr(stage.cacheClusterSize) ELSE "")
        \o build_patch_methods(stg_methods, p.method_settings)

build_patch_args(o, p) ==
    LET patches == build_patches(o, p)
    IN  IF patches # <<>>
        THEN Some([restApiId |-> p.rest_api_id, stageName |-> p.name,
                   patchOperations |-> patches])
        ELSE None

----------------------------------------------------------------------------
(* The provider's update_stage *)

MethodKeys == {"*/*", "~1t/GET", "~1t~1u/PUT"}

SetField(rec, f, v) == [g \in DOMAIN rec \cup {f} |-> IF g = f THEN v ELSE rec[g]]
DropField(rec, f) == [g \in DOMAIN rec \ {f} |-> rec[g]]

\* one patch operation applied to a stored stage; an empty description is
\* dropped from the service's representation
AwsPatchStage(stage, patch) ==
    IF patch.path = "/description"
    THEN IF patch.value = "" THEN DropField(stage, "description")
         ELSE SetField(stage, "description", patch.value)
    ELSE IF patch.path = "/cacheClusterEnabled"
    THEN SetField(stage, "cacheClusterEnabled", patch.value = "True")
    ELSE IF patch.path = "/cacheClusterSize"
    THEN SetField(stage, "cacheClusterSize", patch.value)
    ELSE IF \E k \in MethodKeys : patch.path = "/" \o k \o "/caching/enabled"
    THEN LET k == CHOOSE k \in MethodKeys : patch.path = "/" \o k \o "/caching/enabled"
         IN  SetField(stage, "methodSettings",
                      SetField(stage.methodSettings, k,
                               [cachingEnabled |-> (patch.value = "True")]))
    ELSE stage

RECURSIVE AwsPatchAllStage(_, _)
AwsPatchAllStage(stage, patches) ==
    IF patches = <<>> THEN stage
    ELSE AwsPatchAllStage(AwsPatchStage(stage, Head(patches)), Tail(patches))

----------------------------------------------------------------------------
(* apigw_stage *)

GetStageCall ==
    Call("get_stage", [restApiId |-> params.rest_api_id, stageName |-> params.name])

\* the branch process_request takes
ApiGwStage_branch(p, o) ==
    IF o # None /\ p.state = "absent" THEN "delete"
    ELSE IF p.state = "present" THEN "update"
    ELSE "none"

\* delete_stage(restApiId=..., stageName=...)
ApiGwStage_delete_call(p) ==
    Call("delete_stage", [restApiId |-> p.rest_api_id, stageName |-> p.name])

\* locals of _update_stage that start out as a change
ApiGwStage_update_locals_changed == [changed |-> TRUE, result |-> None]

\* what _update_stage returns unless an update is made: changed = False,
\* result = None
ApiGwStage_update_locals == [changed |-> FALSE, result |-> None]

\* get_stage: NotFoundException is "no such stage", every other error is fatal
ApiGwStage_find_stage ==
    /\ mod = "stage"
    /\ pc = "lookup"
    /\ calls' = Append(calls, GetStageCall)
    /\ \/ /\ me' = aws.stage     \* the stage, or None on NotFoundException
          /\ answer' = IF aws.stage = None THEN "NotFoundException" ELSE "ok"
          /\ pc' = "dispatch"
          /\ UNCHANGED <<outcome, result>>
       \/ fail_json /\ answer' \in {"ClientError", "BotoCoreError"} /\ UNCHANGED me
    /\ UNCHANGED <<mod, aws, params, check_mode, work, runs, hist>>

\* changed is set inside "if not self.module.check_mode"
ApiGwStage_delete_stage ==
    /\ mod = "stage"
    /\ pc = "dispatch"
    /\ ApiGwStage_branch(params, me) = "delete"
    /\ IF ~check_mode
       THEN /\ calls' = Append(calls, ApiGwStage_delete_call(params))
            /\ \/ /\ aws' = [aws EXCEPT !.stage = None]
                  /\ exit_json(TRUE, None)
               \/ fail_json /\ UNCHANGED aws       \* BotoCoreError
               \/ uncaught /\ UNCHANGED aws        \* ClientError
       ELSE /\ exit_json(FALSE, None)
            /\ UNCHANGED <<calls, aws>>
    /\ UNCHANGED <<mod, params, check_mode, me, work, runs, hist, answer>>

\* entered for state=present whether or not a stage was found
ApiGwStage_update_stage ==
    /\ mod = "stage"
    /\ pc = "dispatch"
    /\ ApiGwStage_branch(params, me) = "update"
    /\ LET patch_args == build_patch_args(me, params)
       IN  /\ work' = Some(patch_args)
           /\ IF patch_args # None
              THEN IF ~check_mode
                   THEN /\ calls' = Append(calls, Call("update_stage", Val(patch_args)))
                        /\ \/ fail_json /\ UNCHANGED aws    \* BotoCoreError
                           \/ uncaught /\ UNCHANGED aws     \* ClientError
                           \/ /\ aws.stage # None
                              /\ aws' = [aws EXCEPT !.stage = Some(AwsPatchAllStage(
                                           Val(@), Val(patch_args).patchOperations))]
                              /\ pc' = "refetch"
                              /\ UNCHANGED <<outcome, result>>
                   ELSE /\ exit_json(TRUE, ApiGwStage_update_locals.result)
                        /\ UNCHANGED <<calls, aws>>
              ELSE /\ exit_json(ApiGwStage_update_locals.changed,
                                ApiGwStage_update_locals.result)
                   /\ UNCHANGED <<calls, aws>>
    /\ UNCHANGED <<mod, params, check_mode, me, runs, hist, answer>>

\* the get_stage that follows a successful update_stage
ApiGwStage_update_refetch ==
    /\ mod = "stage"
    /\ pc = "refetch"
    /\ calls' = Append(calls, GetStageCall)
    /\ \/ exit_json(TRUE, aws.stage)
       \/ fail_json
       \/ uncaught
    /\ UNCHANGED <<mod, aws, params, check_mode, me, work, runs, hist, answer>>

\* state=absent and no stage
ApiGwStage_process_request_noop ==
    /\ mod = "stage"
    /\ pc = "dispatch"
    /\ ApiGwStage_branch(params, me) = "none"
    /\ exit_json(FALSE, None)
    /\ UNCHANGED <<mod, aws, params, check_mode, me, calls, work, runs, hist, answer>>

ApiGwStage_process_request ==
    \/ ApiGwStage_find_stage
    \/ ApiGwStage_delete_stage
    \/ ApiGwStage_update_stage
    \/ ApiGwStage_update_refetch
    \/ ApiGwStage_process_request_noop

----------------------------------------------------------------------------
(* apigw_resource, after its unit tests and the specification's path-tree  *)
(* builder.  A path is the tuple of its segments: "/" is <<>>, "/a/b" is   *)
(* <<"a", "b">>; the root resource has id 0 and no parentId.               *)

ROOT == [id |-> 0, path |-> <<>>]

ResourceListings ==
    {{ROOT},
     {ROOT, [id |-> 1, path |-> <<"a">>, parentId |-> 0]},
     {ROOT, [id |-> 1, path |-> <<"c">>, parentId |-> 0]},
     {ROOT, [id |-> 1, path |-> <<"a">>, parentId |-> 0],
            [id |-> 2, path |-> <<"a", "b">>, parentId |-> 1]}}

ResourceParams ==
    [name : {<<"a">>, <<"a", "b">>, <<"a", "b", "c">>}, rest_api_id : {"api"},
     state : {"present", "absent"}]

\* a path map that keeps the id alone
ApiGwResource_build_resource_dictionary_ids(items) ==
    [q \in {r.path : r \in items} |->
        LET r == CHOOSE r \in items : r.path = q
        IN  [id |-> r.id]]

\* path_map['paths']: path -> {id, parentId}
ApiGwResource_build_resource_dictionary(items) ==
    [q \in {r.path : r \in items} |->
        LET r == CHOOSE r \in items : r.path = q
        IN  DropField(r, "path")]

Prefix(q, n) == SubSeq(q, 1, n)

\* a walk that starts at the parent when the parent exists and at the root
\* otherwise
ApiGwResource_existing_parent_or_root(paths, q) ==
    IF SubSeq(q, 1, Len(q) - 1) \in DOMAIN paths THEN Len(q) - 1 ELSE 0

\* a walk that always starts at the root
ApiGwResource_existing_root(paths, q) == 0

\* the length of the longest prefix of the path that the map holds
ApiGwResource_existing(paths, q) ==
    SetMax({n \in 0..Len(q) : Prefix(q, n) \in DOMAIN paths})

ApiGwResource_build_dictionary ==
    /\ mod = "resource"
    /\ pc = "lookup"
    /\ calls' = Append(calls, Call("get_resources",
                                   [restApiId |-> params.rest_api_id, limit |-> 500]))
    /\ \/ /\ me' = Some(ApiGwResource_build_resource_dictionary(aws.resources))
          /\ pc' = "dispatch"
          /\ answer' = "ok"
          /\ UNCHANGED <<outcome, result>>
       \/ fail_json /\ answer' = "BotoCoreError" /\ UNCHANGED me
    /\ UNCHANGED <<mod, aws, params, check_mode, work, runs, hist>>

\* state=present and the whole path is in the map
ApiGwResource_existing_resource ==
    /\ mod = "resource"
    /\ pc = "dispatch"
    /\ params.state = "present"
    /\ params.name \in DOMAIN Val(me)
    /\ exit_json(FALSE, Some(Val(me)[params.name] @@ [path |-> params.name]))
    /\ UNCHANGED <<mod, aws, params, check_mode, me, calls, work, runs, hist, answer>>

\* state=present and segments are missing: the walk starts at the deepest
\* resource that exists
ApiGwResource_create_start ==
    /\ mod = "resource"
    /\ pc = "dispatch"
    /\ params.state = "present"
    /\ params.name \notin DOMAIN Val(me)
    /\ IF check_mode
       THEN /\ exit_json(TRUE, None)
            /\ UNCHANGED work
       ELSE LET n == ApiGwResource_existing(Val(me), params.name)
            IN  /\ work' = [parent |-> Val(me)[Prefix(params.name, n)].id,
                            done |-> n, last |-> None]
                /\ pc' = "creating"
                /\ UNCHANGED <<outcome, result>>
    /\ UNCHANGED <<mod, aws, params, check_mode, me, calls, runs, hist, answer>>

\* one create_resource of the walk
ApiGwResource_create_resource ==
    /\ mod = "resource"
    /\ pc = "creating"
    /\ work.done < Len(params.name)
    /\ LET part == params.name[work.done + 1]
           made == [id |-> aws.next_id, parentId |-> work.parent, pathPart |-> part,
                    path |-> Prefix(params.name, work.done + 1)]
       IN  /\ calls' = Append(calls, Call("create_resource",
                  [restApiId |-> params.rest_api_id, parentId |-> work.parent,
                   pathPart |-> part]))
           /\ \/ /\ aws' = [aws EXCEPT !.resources = @ \cup {DropField(made, "pathPart")},
                                       !.next_id = @ + 1]
                 /\ work' = [parent |-> made.id, done |-> work.done + 1,
                             last |-> Some(made)]
                 /\ IF work.done + 1 = Len(params.name)
                    THEN exit_json(TRUE, Some(made))
                    ELSE UNCHANGED <<pc, outcome, result>>
              \/ fail_json /\ UNCHANGED <<aws, work>>
    /\ UNCHANGED <<mod, params, check_mode, me, runs, hist, answer>>

ApiGwResource_delete_resource ==
    /\ mod = "resource"
    /\ pc = "dispatch"
    /\ params.state = "absent"
    /\ params.name \in DOMAIN Val(me)
    /\ IF ~check_mode
       THEN LET id == Val(me)[params.name].id
            IN  /\ calls' = Append(calls, Call("delete_resource",
                      [restApiId |-> params.rest_api_id, resourceId |-> id]))
                /\ \/ /\ aws' = [aws EXCEPT !.resources =
                            {r \in @ : r.id # id /\
                               ~(Len(r.path) > Len(params.name) /\
                                 Prefix(r.path, Len(params.name)) = params.name)}]
                      /\ exit_json(TRUE, None)
                   \/ fail_json /\ UNCHANGED aws
       ELSE /\ exit_json(TRUE, None)
            /\ UNCHANGED <<calls, aws>>
    /\ UNCHANGED <<mod, params, check_mode, me, work, runs, hist, answer>>

\* state=absent and the path is not in the map
ApiGwResource_process_request_noop ==
    /\ mod = "resource"
    /\ pc = "dispatch"
    /\ params.state = "absent"
    /\ params.name \notin DOMAIN Val(me)
    /\ exit_json(FALSE, None)
    /\ UNCHANGED <<mod, aws, params, check_mode, me, calls, work, runs, hist, answer>>

ApiGwResource_process_request ==
    \/ ApiGwResource_build_dictionary
    \/ ApiGwResource_existing_resource
    \/ ApiGwResource_create_start
    \/ ApiGwResource_create_resource
    \/ ApiGwResource_delete_resource
    \/ ApiGwResource_process_request_noop

----------------------------------------------------------------------------
(* apigw_usage_plan_key, after its unit tests *)

UsagePlanKeyListings ==
    {<<>>,
     <<[id |-> "akid", type |-> "API_KEY"]>>,
     <<[id |-> "wrong_id", type |-> "API_KEY"]>>,
     <<[id |-> "wrong_id", type |-> "API_KEY"], [id |-> "akid", type |-> "API_KEY"]>>}

UsagePlanKeyParams ==
    [usage_plan_id : {"upid"}, api_key_id : {"akid"}, key_type : {"API_KEY"},
     state : {"present", "absent"}]

\* the item of the listing whose id is the api_key_id asked for
ApiGwUsagePlanKey_match(items, id) ==
    LET hits == {i \in 1..Len(items) : items[i].id = id}
    IN  IF hits = {} THEN None ELSE Some(items[SetMax(hits)])

ApiGwUsagePlanKey_retrieve_usage_plan_key ==
    /\ mod = "usage_plan_key"
    /\ pc = "lookup"
    /\ calls' = Append(calls, Call("get_usage_plan_keys",
                                   [usagePlanId |-> params.usage_plan_id]))
    /\ \/ /\ me' = ApiGwUsagePlanKey_match(aws.usage_plan_keys, params.api_key_id)
          /\ pc' = "dispatch"
          /\ answer' = "ok"
          /\ UNCHANGED <<outcome, result>>
       \/ fail_json /\ answer' = "BotoCoreError" /\ UNCHANGED me
    /\ UNCHANGED <<mod, aws, params, check_mode, work, runs, hist>>

ApiGwUsagePlanKey_delete_usage_plan_key ==
    /\ mod = "usage_plan_key"
    /\ pc = "dispatch"
    /\ params.state = "absent"
    /\ me # None
    /\ IF ~check_mode
       THEN /\ calls' = Append(calls, Call("delete_usage_plan_key",
                  [usagePlanId |-> params.usage_plan_id, keyId |-> params.api_key_id]))
            /\ \/ /\ aws' = [aws EXCEPT !.usage_plan_keys =
                        SelectSeq2(@, {i \in 1..Len(@) : @[i].id # params.api_key_id})]
                  /\ exit_json(TRUE, None)
               \/ fail_json /\ UNCHANGED aws
       ELSE /\ exit_json(TRUE, None)
            /\ UNCHANGED <<calls, aws>>
    /\ UNCHANGED <<mod, params, check_mode, me, work, runs, hist, answer>>

ApiGwUsagePlanKey_create_usage_plan_key ==
    /\ mod = "usage_plan_key"
    /\ pc = "dispatch"
    /\ params.state = "present"
    /\ me = None
    /\ IF ~check_mode
       THEN LET made == [id |-> params.api_key_id, type |-> params.key_type]
            IN  /\ calls' = Append(calls, Call("create_usage_plan_key",
                      [usagePlanId |-> params.usage_plan_id,
                       keyId |-> params.api_key_id, keyType |-> params.key_type]))
                /\ \/ /\ aws' = [aws EXCEPT !.usage_plan_keys = Append(@, made)]
                      /\ exit_json(TRUE, Some(made))
                   \/ fail_json /\ UNCHANGED aws
       ELSE /\ exit_json(TRUE, None)
            /\ UNCHANGED <<calls, aws>>
    /\ UNCHANGED <<mod, params, check_mode, me, work, runs, hist, answer>>

\* a module that returns no object when nothing is to be done
ApiGwUsagePlanKey_unchanged_object_none(p, o) == None

\* the object reported when nothing is to be done: the association found
\* (state=present) or None (state=absent)
ApiGwUsagePlanKey_unchanged_object(p, o) ==
    IF p.state = "present" THEN o ELSE None

\* state=present and the key is in the plan, or state=absent and it is not
ApiGwUsagePlanKey_process_request_noop ==
    /\ mod = "usage_plan_key"
    /\ pc = "dispatch"
    /\ (params.state = "present") = (me # None)
    /\ exit_json(FALSE, ApiGwUsagePlanKey_unchanged_object(params, me))
    /\ UNCHANGED <<mod, aws, params, check_mode, me, calls, work, runs, hist, answer>>

ApiGwUsagePlanKey_process_request ==
    \/ ApiGwUsagePlanKey_retrieve_usage_plan_key
    \/ ApiGwUsagePlanKey_delete_usage_plan_key
    \/ ApiGwUsagePlanKey_create_usage_plan_key
    \/ ApiGwUsagePlanKey_process_request_noop

----------------------------------------------------------------------------
(* The task *)

Modules == {"api_key", "model", "stage", "resource", "usage_plan_key"}

EmptyAws == [api_keys |-> <<>>, next_id |-> 1, model |-> None, stage |-> None,
             resources |-> {}, usage_plan_keys |-> <<>>]

InitAws(m) ==
    IF m = "api_key"
    THEN {[EmptyAws EXCEPT !.api_keys = l, !.next_id = Len(l) + 1] :
            l \in UNION {ApiKeyListings(n) : n \in 0..MaxKeys}}
    ELSE IF m = "model"
    THEN {[EmptyAws EXCEPT !.model = o] : o \in {None} \cup {Some(i) : i \in ModelItems}}
    ELSE IF m = "stage"
    THEN {[EmptyAws EXCEPT !.stage = o] : o \in {None} \cup {Some(i) : i \in StageItems}}
    ELSE IF m = "resource"
    THEN {[EmptyAws EXCEPT !.resources = l, !.next_id = Cardinality(l)] :
            l \in ResourceListings}
    ELSE IF m = "usage_plan_key"
    THEN {[EmptyAws EXCEPT !.usage_plan_keys = l] : l \in UsagePlanKeyListings}
    ELSE {EmptyAws}

ParamsOf(m) ==
    IF m = "api_key" THEN ApiKeyParams
    ELSE IF m = "model" THEN ModelParams
    ELSE IF m = "stage" THEN StageParams
    ELSE IF m = "resource" THEN ResourceParams
    ELSE IF m = "usage_plan_key" THEN UsagePlanKeyParams
    ELSE {}

\* hist: the invocation before this one (whether there was one, its check
\* mode, what it looked up, how it ended, the changed it reported, the patches
\* its diff builder returned) and whether
\* some earlier invocation ended in exit_json with check mode off
NoHist == [ran |-> FALSE, check_mode |-> FALSE, me |-> None, outcome |-> "none",
           changed |-> FALSE, applied |-> FALSE, patches |-> None]

Init ==
    /\ mod \in Modules
    /\ aws \in InitAws(mod)
    /\ params \in ParamsOf(mod)
    /\ check_mode \in BOOLEAN
    /\ me = None
    /\ work = None
    /\ pc = "lookup"
    /\ calls = <<>>
    /\ outcome = "none"
    /\ result = NoResult
    /\ runs = 1
    /\ hist = NoHist
    /\ answer = "none"

\* the task is run again with the same parameters, with or without --check
Rerun ==
    /\ pc = "done"
    /\ runs < MaxRuns
    /\ runs' = runs + 1
    /\ hist' = [ran |-> TRUE, check_mode |-> check_mode, me |-> me, outcome |-> outcome,
                changed |-> result.changed,
                applied |-> hist.applied \/ (outcome = "exit_json" /\ ~check_mode),
                patches |-> IF mod \in {"api_key", "stage"} THEN work ELSE None]
    /\ check_mode' \in BOOLEAN
    /\ me' = None
    /\ work' = None
    /\ pc' = "lookup"
    /\ calls' = <<>>
    /\ outcome' = "none"
    /\ result' = NoResult
    /\ answer' = "none"
    /\ UNCHANGED <<mod, aws, params>>

Next ==
    \/ ApiGwApiKey_process_request
    \/ ApiGwModel_process_request
    \/ ApiGwStage_process_request
    \/ ApiGwResource_process_request
    \/ ApiGwUsagePlanKey_process_request
    \/ Rerun

Spec == Init /\ [][Next]_vars

----------------------------------------------------------------------------
(* Vocabulary of the properties *)

\* the lookup of this invocation has returned (it did not end the invocation)
LookupReturned ==
    \/ pc \in {"dispatch", "refetch", "creating"}
    \/ pc = "done" /\ (outcome = "exit_json" \/ Len(calls) > 1)

\* the lookup found the object the parameters name
Found ==
    IF mod = "resource" THEN me # None /\ params.name \in DOMAIN Val(me)
    ELSE me # None

Finished == pc = "done"
Exited == pc = "done" /\ outcome = "exit_json"

UpdateOp ==
    IF mod = "api_key" THEN "update_api_key"
    ELSE IF mod = "model" THEN "update_model"
    ELSE "update_stage"

DeleteOp ==
    IF mod = "api_key" THEN "delete_api_key"
    ELSE IF mod = "model" THEN "delete_model"
    ELSE IF mod = "stage" THEN "delete_stage"
    ELSE IF mod = "resource" THEN "delete_resource"
    ELSE "delete_usage_plan_key"

----------------------------------------------------------------------------
(* C1: in every module, with state=absent and a lookup that found nothing, *)
(* the invocation issues no create, update or delete call and ends in      *)
(* exit_json with changed=false and a null object.                         *)
C1_AbsentNotFoundIsNoop ==
    (params.state = "absent" /\ LookupReturned /\ ~Found) =>
        /\ Mutations = {}
        /\ Finished => outcome = "exit_json" /\ result = [changed |-> FALSE, object |-> None]

C1_Witness ==
    /\ mod = "stage"
    /\ params.state = "absent"
    /\ LookupReturned /\ ~Found
    /\ Exited
    /\ ~check_mode

(* C2: dry-run equivalence.  With check mode on no create, update or       *)
(* delete call is issued, and an invocation with check mode off that       *)
(* follows a check-mode invocation of the same parameters and observes the *)
(* same object reports the changed value the check-mode run reported.      *)
C2_DryRunEquivalence ==
    /\ check_mode => Mutations = {}
    /\ (/\ Exited /\ ~check_mode
        /\ hist.ran /\ hist.check_mode /\ hist.outcome = "exit_json"
        /\ hist.me = me)
       => result.changed = hist.changed

\* the stage module's delete: the check-mode run reported changed=false and
\* the run without check mode, finding the same stage, reports changed=true
C2_Witness ==
    /\ mod = "stage" /\ params.state = "absent"
    /\ Exited /\ ~check_mode
    /\ hist.ran /\ hist.check_mode /\ hist.outcome = "exit_json"
    /\ hist.me = me /\ me # None
    /\ result.changed /\ ~hist.changed
    /\ Issued("delete_stage") # {}

\* the same, leaving out the stage module's delete
C2_DryRunEquivalenceButStageDelete ==
    (mod = "stage" /\ params.state = "absent") \/ C2_DryRunEquivalence

(* C3: api key, state=present, nothing found, check mode off: exactly one  *)
(* create_api_key call and no other mutating call; the call carries name,  *)
(* enabled and generateDistinctId, and description and value each exactly  *)
(* when the parameter is neither None nor ''; on success changed=true and  *)
(* the create response, the key the provider now stores, is returned.      *)
C3_CreateApiKey ==
    (/\ mod = "api_key" /\ params.state = "present" /\ ~check_mode
     /\ LookupReturned /\ ~Found /\ Finished)
    => /\ Cardinality(Issued("create_api_key")) = 1
       /\ Mutations = Issued("create_api_key")
       /\ \A i \in Issued("create_api_key") :
            LET a == calls[i].args
            IN  /\ DOMAIN a \subseteq {"name", "enabled", "generateDistinctId",
                                       "description", "value"}
                /\ a.name = params.name
                /\ a.enabled = params.enabled
                /\ a.generateDistinctId = params.generate_distinct_id
                /\ "description" \in DOMAIN a <=> params.description \notin {None, Some("")}
                /\ "description" \in DOMAIN a => a.description = Val(params.description)
                /\ "value" \in DOMAIN a <=> params.value \notin {None, Some("")}
                /\ "value" \in DOMAIN a => a.value = Val(params.value)
       /\ outcome = "exit_json" =>
            /\ result.changed
            /\ result.object = Some(Last(aws.api_keys))
            /\ Val(result.object).name = params.name

C3_Witness ==
    /\ mod = "api_key" /\ params.state = "present" /\ ~check_mode
    /\ LookupReturned /\ ~Found /\ Exited
    /\ params.description = Some("") /\ params.value = Some("v")
    /\ Len(aws.api_keys) > 1


----------------------------------------------------------------------------
(* Desired against observed attributes, for the modules that update *)

Updaters == {"api_key", "model", "stage"}

\* every attribute the parameters supply is in the observed object with the
\* same value
ApiKeyAttrsEqual(p, m) ==
    /\ p.enabled = m.enabled
    /\ p.description # None =>
         "description" \in DOMAIN m /\ m.description = Val(p.description)

ModelAttrsEqual(p, m) ==
    /\ p.schema = Some(m.schema)
    /\ "description" \in DOMAIN m /\ p.description = Some(m.description)

StageAttrsEqual(p, m) ==
    /\ p.description # None =>
         "description" \in DOMAIN m /\ m.description = Val(p.description)
    /\ p.cache_cluster_enabled # None =>
         m.cacheClusterEnabled = Val(p.cache_cluster_enabled)
    /\ p.cache_cluster_size # None =>
         "cacheClusterSize" \in DOMAIN m /\ m.cacheClusterSize = Val(p.cache_cluster_size)
    /\ \A i \in 1..Len(p.method_settings) :
         LET e == p.method_settings[i]
             k == IF e.method_verb = "GET" THEN "~1t/GET" ELSE "~1t~1u/PUT"
         IN  /\ k \in DOMAIN m.methodSettings
             /\ m.methodSettings[k].cachingEnabled
                  = ("caching_enabled" \in DOMAIN e /\ e.caching_enabled)

AttrsEqual ==
    IF mod = "api_key" THEN ApiKeyAttrsEqual(params, Val(me))
    ELSE IF mod = "model" THEN ModelAttrsEqual(params, Val(me))
    ELSE StageAttrsEqual(params, Val(me))

\* the module's comparison of the parameters with the object it found finds
\* nothing to update
DiffEmpty ==
    IF mod = "api_key" THEN ApiGwApiKey_create_patches(params, Val(me)) = <<>>
    ELSE IF mod = "model" THEN ApiGwModel_update_unneeded(params, Val(me))
    ELSE build_patch_args(me, params) = None

UpdateCase ==
    mod \in Updaters /\ params.state = "present" /\ LookupReturned /\ Found

\* the object of the parameters' name as the provider holds it now
Stored ==
    IF mod = "api_key"
    THEN ApiGwApiKey_match(aws.api_keys, params.name)
    ELSE IF mod = "model" THEN aws.model
    ELSE aws.stage

(* C4: api key, model, stage; state=present and the object found.  When    *)
(* every supplied attribute equals the observed one the module's diff is   *)
(* empty, and when the diff is empty no update call (no mutating call at   *)
(* all) is issued and the invocation ends in exit_json with changed=false. *)
C4_EmptyDiffIsNoUpdate ==
    UpdateCase =>
        /\ AttrsEqual => DiffEmpty
        /\ DiffEmpty =>
             /\ Issued(UpdateOp) = {}
             /\ Mutations = {}
             /\ Finished => outcome = "exit_json" /\ ~result.changed

C4_Witness ==
    /\ UpdateCase /\ mod = "stage" /\ AttrsEqual /\ DiffEmpty /\ Exited /\ ~check_mode
    /\ params.description = Some("d")
    /\ Len(params.method_settings) = 2

(* C5 as claimed: with an empty diff the object returned is the observed   *)
(* object, as the lookup fetched it, in api key, model and stage alike.    *)
C5_Claimed_ReturnsObserved ==
    (UpdateCase /\ Exited /\ DiffEmpty) => result.object = me /\ result.object # None

(* C5 as amended: with an empty diff the api key module returns the        *)
(* observed key exactly as the lookup fetched it; the model and the stage  *)
(* module return a null object.                                            *)
C5_EmptyDiffReturn ==
    (UpdateCase /\ Exited /\ DiffEmpty) =>
        IF mod = "api_key"
        THEN result.object = me /\ result.object # None
        ELSE result.object = None

C5_Witness ==
    /\ UpdateCase /\ DiffEmpty /\ Exited /\ mod = "api_key"
    /\ "description" \in DOMAIN Val(me)
    /\ hist.ran

(* C6: api key and stage; state=present, object found, non-empty diff,     *)
(* check mode off.  One update call is issued and no other mutating call;  *)
(* it is the second call, addressed to the looked-up object (the key's id, *)
(* the stage's rest api and name) and carries the whole patch list; on     *)
(* success a third call fetches the object again and the result is         *)
(* changed=true with what the provider holds after the update.             *)
C6_UpdateThenRefetch ==
    (/\ UpdateCase /\ mod \in {"api_key", "stage"}
     /\ ~check_mode /\ Finished /\ ~DiffEmpty)
    => /\ Issued(UpdateOp) = {2}
       /\ Mutations = {2}
       /\ IF mod = "api_key"
          THEN calls[2].args = [apiKey |-> Val(me).id,
                 patchOperations |-> ApiGwApiKey_create_patches(params, Val(me))]
          ELSE calls[2].args = [restApiId |-> params.rest_api_id,
                 stageName |-> params.name,
                 patchOperations |-> build_patches(me, params)]
       /\ outcome = "exit_json" =>
            /\ Len(calls) = 3
            /\ calls[3] = calls[1]
            /\ result.changed
            /\ result.object = Stored
            /\ result.object # None
            /\ mod = "api_key" =>
                 /\ Val(result.object).id = Val(me).id
                 /\ result.object # me
                 /\ ApiKeyAttrsEqual(params, Val(result.object))
                      \/ params.description = Some("")

C6_Witness ==
    /\ UpdateCase /\ mod = "stage" /\ ~DiffEmpty /\ ~check_mode /\ Exited
    /\ Len(calls[2].args.patchOperations) > 2
    /\ result.object # me

(* C7 as claimed: under check mode, with a non-empty diff, no update call  *)
(* is issued, changed=true is reported and the object returned is the      *)
(* pre-change object of the lookup, in api key, model and stage alike.     *)
C7_Claimed_CheckModeReturnsObserved ==
    (UpdateCase /\ check_mode /\ Finished /\ ~DiffEmpty) =>
        /\ Mutations = {}
        /\ outcome = "exit_json" /\ result.changed
        /\ result.object = me

(* C7 as amended: under check mode, with a non-empty diff, no update call  *)
(* is issued and changed=true is reported; the api key module returns the  *)
(* pre-change key of the lookup, the model and the stage module return a   *)
(* null object.                                                            *)
C7_CheckModeUpdate ==
    (UpdateCase /\ check_mode /\ Finished /\ ~DiffEmpty) =>
        /\ Mutations = {}
        /\ outcome = "exit_json" /\ result.changed
        /\ IF mod = "api_key"
           THEN result.object = me /\ result.object # None
           ELSE result.object = None

C7_Witness ==
    /\ UpdateCase /\ ~DiffEmpty /\ check_mode /\ Exited /\ mod = "model"
    /\ params.schema # Some(Val(me).schema)


(* C8: in every module, with state=absent, the object found and check     *)
(* mode off, exactly one delete call is issued and no create or update     *)
(* call; the delete is addressed to what the lookup found (api key: the    *)
(* found item's id; model and stage: rest api and name; resource: the id   *)
(* the path map holds for the path; usage-plan key: usage plan id and api  *)
(* key id); on success the result is changed=true with a null object.      *)
C8_DeleteFound ==
    (params.state = "absent" /\ LookupReturned /\ Found /\ ~check_mode /\ Finished)
    => /\ Cardinality(Issued(DeleteOp)) = 1
       /\ Mutations = Issued(DeleteOp)
       /\ \A i \in Issued(DeleteOp) :
            calls[i].args =
              IF mod = "api_key" THEN [apiKey |-> Val(me).id]
              ELSE IF mod = "model"
              THEN [restApiId |-> params.rest_api_id, modelName |-> params.name]
              ELSE IF mod = "stage"
              THEN [restApiId |-> params.rest_api_id, stageName |-> params.name]
              ELSE IF mod = "resource"
              THEN [restApiId |-> params.rest_api_id,
                    resourceId |-> Val(me)[params.name].id]
              ELSE [usagePlanId |-> params.usage_plan_id, keyId |-> params.api_key_id]
       /\ outcome = "exit_json" =>
            result = [changed |-> TRUE, object |-> None]

C8_Witness ==
    /\ params.state = "absent" /\ LookupReturned /\ Found /\ ~check_mode /\ Exited
    /\ mod = "api_key"
    /\ Val(me).id = 2

(* C9: api key convergence.  Once an invocation with state=present and     *)
(* check mode off has ended in exit_json, every later invocation with the  *)
(* same parameters issues no mutating call and, when it ends in exit_json, *)
(* reports changed=false.                                                  *)
C9_ApiKeyConverges ==
    (mod = "api_key" /\ params.state = "present" /\ hist.applied) =>
        /\ Mutations = {}
        /\ Exited => ~result.changed

C9_Witness ==
    /\ mod = "api_key" /\ params.state = "present" /\ hist.applied
    /\ Exited /\ ~check_mode
    /\ params.description = Some("")
    /\ hist.changed /\ hist.me # None /\ "description" \in DOMAIN Val(hist.me)

(* C10: model convergence.  Once an invocation of the model module with    *)
(* state=present, description '' and check mode off has ended in           *)
(* exit_json, every later invocation with the same parameters issues no    *)
(* update_model call and, when it ends in exit_json, reports changed=false.*)
C10_ModelConverges ==
    (/\ mod = "model" /\ params.state = "present"
     /\ params.description = Some("") /\ hist.applied) =>
        /\ Issued("update_model") = {}
        /\ Exited => ~result.changed

\* the second invocation, without check mode, updates the model again
C10_Witness ==
    /\ mod = "model" /\ params.state = "present"
    /\ params.description = Some("") /\ hist.applied
    /\ Exited /\ ~check_mode
    /\ Issued("update_model") # {}
    /\ result.changed
    /\ "description" \notin DOMAIN Val(me)

----------------------------------------------------------------------------
(* C11: the stage module never creates a stage, and with state=present and *)
(* a lookup that found no stage it issues no mutating provider call,       *)
(* whatever description, cache or method_settings parameters are given.    *)
C11_StageNeverCreates ==
    mod = "stage" =>
        /\ Issued("create_stage") = {}
        /\ (params.state = "present" /\ LookupReturned /\ ~Found) => Mutations = {}

\* state=present, no stage found, check mode off: update_stage has been issued
C11_Witness ==
    /\ mod = "stage" /\ params.state = "present"
    /\ LookupReturned /\ ~Found /\ ~check_mode
    /\ Finished
    /\ Issued("update_stage") = {2}
    /\ aws.stage = None

(* C12: in the get-by-id lookups of the model and the stage module, the    *)
(* lookup yields "not found" only when the provider answered               *)
(* NotFoundException; any other provider error on the lookup ends the      *)
(* invocation in failure with the lookup as its only call, so no create,   *)
(* update or delete call follows it.                                       *)
C12_OnlyNotFoundIsNotFound ==
    mod \in {"model", "stage"} =>
        /\ (LookupReturned /\ ~Found) => answer = "NotFoundException"
        /\ answer \in {"ClientError", "BotoCoreError"} =>
              /\ Finished /\ outcome \in {"fail_json", "exception"}
              /\ Len(calls) = 1
              /\ Mutations = {}

\* the model exists, get_model answered another ClientError, and the module
\* went on to call create_model
C12_Witness ==
    /\ mod = "model" /\ params.state = "present"
    /\ answer = "ClientError"
    /\ aws.model # None /\ me = None
    /\ Issued("create_model") = {2}

\* the stage module's half of C12, which holds
C12_StageLookupErrorsAreFatal ==
    mod = "stage" =>
        /\ (LookupReturned /\ ~Found) => answer = "NotFoundException"
        /\ answer \in {"ClientError", "BotoCoreError"} =>
              /\ Finished /\ outcome = "fail_json"
              /\ Len(calls) = 1
              /\ Mutations = {}

C14_EmptyDescriptionPatch ==
    (mod = "api_key" /\ UpdateCase /\ params.description = Some("")) =>
        LET patches == ApiGwApiKey_create_patches(params, Val(me))
            descOps == {i \in 1..Len(patches) : patches[i].path = "/description"}
        IN  IF "description" \notin DOMAIN Val(me)
            THEN /\ descOps = {}
                 /\ params.enabled = Val(me).enabled =>
                       /\ patches = <<>>
                       /\ Issued("update_api_key") = {}
                       /\ Finished => outcome = "exit_json" /\ ~result.changed
            ELSE /\ Cardinality(descOps) = 1
                 /\ \A i \in descOps :
                       patches[i] = [op |-> "replace", path |-> "/description", value |-> ""]
                 /\ (~check_mode /\ Finished) =>
                       /\ Issued("update_api_key") = {2}
                       /\ calls[2].args.patchOperations = patches
                 /\ Exited => result.changed

\* the suppressed case, ended
C14_Witness ==
    /\ mod = "api_key" /\ UpdateCase /\ params.description = Some("")
    /\ "description" \notin DOMAIN Val(me)
    /\ params.enabled = Val(me).enabled
    /\ Exited /\ ~check_mode

\* the other case of C14: a description is cleared
C14_ClearedWitness ==
    /\ mod = "api_key" /\ UpdateCase /\ params.description = Some("")
    /\ "description" \in DOMAIN Val(me)
    /\ params.enabled = Val(me).enabled
    /\ Exited /\ ~check_mode
    /\ Len(calls[2].args.patchOperations) = 1

(* C15: stage patch builder, desired description '' and an observed stage  *)
(* without a description: no patch for /description is built and, when     *)
(* nothing else differs, the invocation reports changed=false.             *)
C15_StageEmptyDescriptionSuppressed ==
    (/\ mod = "stage" /\ UpdateCase
     /\ params.description = Some("") /\ "description" \notin DOMAIN Val(me)) =>
        LET patches == build_patches(me, params)
            descOps == {i \in 1..Len(patches) : patches[i].path = "/description"}
        IN  /\ descOps = {}
            /\ (Cardinality(descOps) = Len(patches) /\ Finished) =>
                  /\ Issued("update_stage") = {}
                  /\ outcome = "exit_json" /\ ~result.changed

\* only description '' is supplied, the stage has no description, and the
\* invocation has patched /description and reported changed=true
C15_Witness ==
    /\ mod = "stage" /\ UpdateCase
    /\ params.description = Some("") /\ "description" \notin DOMAIN Val(me)
    /\ params.cache_cluster_enabled = None /\ params.cache_cluster_size = None
    /\ params.method_settings = <<>>
    /\ ~check_mode /\ Exited
    /\ Issued("update_stage") = {2}
    /\ calls[2].args.patchOperations =
         <<[op |-> "replace", path |-> "/description", value |-> ""]>>
    /\ result.changed

(* C16: stage method settings.  For each desired entry, with key =         *)
(* method_name with every '/' replaced by '~1', then '/', then             *)
(* method_verb, the patch list holds {replace, '/' + key +                 *)
(* '/caching/enabled', str(caching_enabled)} exactly when the key is not   *)
(* in the observed methodSettings or the observed cachingEnabled differs   *)
(* from the desired flag (False when not given): one op per such entry,    *)
(* in the order of the entries, and no other method op; with check mode    *)
(* off the update call carries them.                                       *)
C16_MethodSettingsPatches ==
    (mod = "stage" /\ UpdateCase) =>
        LET ms == params.method_settings
            obs == Val(me).methodSettings
            patches == build_patches(me, params)
            methodOps == SelectSeq(patches, LAMBDA x :
                x.path \notin {"/description", "/cacheClusterEnabled", "/cacheClusterSize"})
            key(e) == (IF e.method_name = <<"/", "t">> THEN "~1t" ELSE "~1t~1u")
                        \o "/" \o e.method_verb
            flag(e) == "caching_enabled" \in DOMAIN e /\ e.caching_enabled
            needs(e) == key(e) \notin DOMAIN obs \/ obs[key(e)].cachingEnabled # flag(e)
            needed == {i \in 1..Len(ms) : needs(ms[i])}
        IN  /\ Len(methodOps) = Cardinality(needed)
            /\ \A i \in needed :
                  methodOps[Cardinality({j \in needed : j <= i})] =
                      [op |-> "replace",
                       path |-> "/" \o key(ms[i]) \o "/caching/enabled",
                       value |-> IF flag(ms[i]) THEN "True" ELSE "False"]
            /\ (~check_mode /\ Finished /\ patches # <<>>) =>
                  /\ Issued("update_stage") = {2}
                  /\ calls[2].args.patchOperations = patches

\* two entries: '/t/u' PUT is not in the observed settings, '/t' GET is there
\* with the other flag; both ops are in the update call
C16_Witness ==
    /\ mod = "stage" /\ UpdateCase /\ ~check_mode /\ Exited
    /\ Len(params.method_settings) = 2
    /\ "~1t/GET" \in DOMAIN Val(me).methodSettings
    /\ ~Val(me).methodSettings["~1t/GET"].cachingEnabled
    /\ \E i, j \in 1..Len(calls[2].args.patchOperations) :
          /\ i < j
          /\ calls[2].args.patchOperations[i] =
                [op |-> "replace", path |-> "/~1t~1u/PUT/caching/enabled", value |-> "False"]
          /\ calls[2].args.patchOperations[j] =
                [op |-> "replace", path |-> "/~1t/GET/caching/enabled", value |-> "True"]

----------------------------------------------------------------------------
(* The resource path tree *)

\* state=present and the requested path is not in the path map
CreateCase ==
    mod = "resource" /\ params.state = "present" /\ LookupReturned /\ ~Found

\* the provider's resource of a path
ResourceAt(q) == CHOOSE r \in aws.resources : r.path = q

(* C17: resource, state=present, check mode off, the requested path not in  *)
(* the map, its longest existing prefix leaving k >= 1 segments missing.    *)
(* The calls after the lookup are create_resource calls only, at most k,    *)
(* in path order: the j-th carries the j-th missing segment as pathPart and *)
(* as parentId the id of the resource one segment up (the deepest existing  *)
(* ancestor for the first, the resource the preceding create returned for   *)
(* the others).  The invocation ends in exit_json after exactly k creates,  *)
(* with changed=true and the last create's response as the object.          *)
C17_CreatesMissingSegments ==
    (CreateCase /\ ~check_mode) =>
        LET q == params.name
            n == SetMax({j \in 0..Len(q) : SubSeq(q, 1, j) \in DOMAIN Val(me)})
            k == Len(q) - n
        IN  /\ k >= 1
            /\ Len(calls) - 1 <= k
            /\ Issued("create_resource") = 2..Len(calls)
            /\ Mutations = 2..Len(calls)
            /\ \A i \in 2..Len(calls) :
                  /\ \E r \in aws.resources : r.path = SubSeq(q, 1, n + i - 2)
                  /\ calls[i].args =
                        [restApiId |-> params.rest_api_id,
                         parentId |-> ResourceAt(SubSeq(q, 1, n + i - 2)).id,
                         pathPart |-> q[n + i - 1]]
            /\ Exited =>
                  /\ Len(calls) = k + 1
                  /\ result.changed
                  /\ result.object # None
                  /\ Val(result.object).path = q
                  /\ Val(result.object).id = ResourceAt(q).id
                  /\ Val(result.object).parentId = ResourceAt(SubSeq(q, 1, Len(q) - 1)).id
            /\ (Finished /\ outcome = "exit_json") <=> (Finished /\ Len(calls) = k + 1
                                                       /\ \E r \in aws.resources : r.path = q)

\* '/a' exists and '/a/b/c' is asked for: two creates, the first under '/a'
C17_Witness ==
    /\ CreateCase /\ ~check_mode /\ Exited
    /\ params.name = <<"a", "b", "c">>
    /\ DOMAIN Val(me) = {<<>>, <<"a">>}
    /\ Len(calls) = 3
    /\ calls[2].args.parentId = 1
    /\ calls[3].args.parentId = calls[2].args.parentId + 1

(* C18: resource, state=present, the whole requested path in the path map. *)
(* The lookup is the invocation's only call (no create_resource), and the  *)
(* invocation ends in exit_json with changed=false and, as the object, the *)
(* existing leaf's id and parent id together with its path.                *)
C18_ExistingPathReturned ==
    (mod = "resource" /\ params.state = "present" /\ LookupReturned /\ Found) =>
        /\ Len(calls) = 1
        /\ Issued("create_resource") = {} /\ Mutations = {}
        /\ Finished =>
              /\ outcome = "exit_json"
              /\ ~result.changed
              /\ result.object = Some([id |-> ResourceAt(params.name).id,
                                        parentId |-> ResourceAt(params.name).parentId,
                                        path |-> params.name])

\* '/a/b' exists and is asked for
C18_Witness ==
    /\ mod = "resource" /\ params.state = "present" /\ LookupReturned /\ Found
    /\ Exited /\ ~check_mode
    /\ params.name = <<"a", "b">>
    /\ Val(result.object).id = 2 /\ Val(result.object).parentId = 1

\* this invocation follows one that looked the listing up, set out to create
\* missing segments and ended in fail_json
AfterFailedCreate ==
    /\ mod = "resource" /\ params.state = "present"
    /\ hist.ran /\ ~hist.check_mode
    /\ hist.outcome = "fail_json" /\ hist.me # None

(* C19: resource, state=present, an invocation that follows one whose      *)
(* creates failed part-way.  Its lookup observes the listing as the        *)
(* provider holds it now, segments created earlier included; it creates    *)
(* only paths the listing does not hold, so no path ever exists twice; and *)
(* when it ends in exit_json, check mode off, the whole requested path     *)
(* exists, after exactly as many creates as segments were still missing.   *)
C19_ConvergesAfterPartialFailure ==
    AfterFailedCreate =>
        /\ \A r1, r2 \in aws.resources : r1.path = r2.path => r1 = r2
        /\ LookupReturned =>
              LET q == params.name
                  seen == DOMAIN Val(me)
                  n == SetMax({j \in 0..Len(q) : SubSeq(q, 1, j) \in seen})
              IN  /\ DOMAIN Val(hist.me) \subseteq seen
                  /\ pc = "dispatch" => seen = {r.path : r \in aws.resources}
                  /\ \A i \in Issued("create_resource") :
                        SubSeq(q, 1, n + i - 1) \notin seen
                  /\ \A j \in 0..Len(q) :
                        (SubSeq(q, 1, j) \in seen) =>
                            Cardinality({r \in aws.resources : r.path = SubSeq(q, 1, j)}) = 1
                  /\ check_mode => Issued("create_resource") = {}
                  /\ (Exited /\ ~check_mode) =>
                        /\ \A j \in 0..Len(q) : \E r \in aws.resources : r.path = SubSeq(q, 1, j)
                        /\ Cardinality(Issued("create_resource")) = Len(q) - n

\* '/a/b/c' asked for with '/' alone: the first invocation created '/a' and
\* failed, the second created '/a/b' and '/a/b/c' and ended in exit_json
C19_Witness ==
    /\ AfterFailedCreate /\ ~check_mode /\ Exited
    /\ params.name = <<"a", "b", "c">>
    /\ DOMAIN Val(hist.me) = {<<>>}
    /\ DOMAIN Val(me) = {<<>>, <<"a">>}
    /\ Cardinality(Issued("create_resource")) = 2
    /\ result.changed

(* C20: listing-based lookup (api key by name, usage-plan key by           *)
(* api_key_id).  What the lookup returns is an item of the provider's      *)
(* listing whose identifying field equals the desired key exactly, and it  *)
(* returns not-found exactly when no item has that key; an item that only  *)
(* matches the provider's partial name query is never returned.            *)
C20_ExactMatchLookup ==
    (mod \in {"api_key", "usage_plan_key"} /\ pc = "dispatch") =>
        IF mod = "api_key"
        THEN /\ me # None =>
                  /\ Val(me).name = params.name
                  /\ \E i \in 1..Len(aws.api_keys) : aws.api_keys[i] = Val(me)
             /\ me = None <=>
                  ~ \E i \in 1..Len(aws.api_keys) : aws.api_keys[i].name = params.name
        ELSE /\ me # None =>
                  /\ Val(me).id = params.api_key_id
                  /\ \E i \in 1..Len(aws.usage_plan_keys) : aws.usage_plan_keys[i] = Val(me)
             /\ me = None <=>
                  ~ \E i \in 1..Len(aws.usage_plan_keys) :
                        aws.usage_plan_keys[i].id = params.api_key_id

\* the listing ends with a key whose name merely starts with the name asked
\* for; the lookup returned the key before it
C20_Witness ==
    /\ mod = "api_key" /\ pc = "dispatch"
    /\ Len(aws.api_keys) = 2
    /\ aws.api_keys[1].name = params.name
    /\ aws.api_keys[2].name = "kk"
    /\ me = Some(aws.api_keys[1])

\* only a partial match is listed: not found
C20_PartialOnlyWitness ==
    /\ mod = "api_key" /\ pc = "dispatch"
    /\ Len(aws.api_keys) = 1 /\ aws.api_keys[1].name = "kk"
    /\ me = None

----------------------------------------------------------------------------
(* C21: usage-plan key, state=present and the association found: the       *)
(* lookup is the invocation's only call (no create, no delete), and the    *)
(* invocation ends in exit_json with changed=false and the association the *)
(* lookup found as the object.                                             *)
C21_UsagePlanKeyPresentFound ==
    (mod = "usage_plan_key" /\ params.state = "present" /\ LookupReturned /\ Found) =>
        /\ Len(calls) = 1
        /\ Mutations = {}
        /\ Finished =>
              /\ outcome = "exit_json"
              /\ ~result.changed
              /\ result.object = me
              /\ Val(result.object).id = params.api_key_id
              /\ \E i \in 1..Len(aws.usage_plan_keys) :
                    aws.usage_plan_keys[i] = Val(result.object)

C21_Witness ==
    /\ mod = "usage_plan_key" /\ params.state = "present" /\ LookupReturned /\ Found
    /\ Exited /\ ~check_mode
    /\ Len(aws.usage_plan_keys) = 2
    /\ ~hist.ran

----------------------------------------------------------------------------
(* The patch list of the api key and the stage module *)

\* the diff builder has what it needs: state=present, and a key found (the
\* stage builder also takes a stage that was not found)
BuilderCase ==
    /\ mod \in {"api_key", "stage"} /\ params.state = "present" /\ LookupReturned
    /\ mod = "api_key" => Found

\* the patch list the module's builder makes of the parameters and the
\* observed object
Patches ==
    IF mod = "api_key" THEN ApiGwApiKey_create_patches(params, Val(me))
    ELSE build_patches(me, params)

\* the paths a patch list addresses
PatchPaths(ps) == {ps[i].path : i \in 1..Len(ps)}

(* C23: patch operations target only what the user supplied.  In the api   *)
(* key and the stage builder a field whose parameter is None gets no patch *)
(* op whatever the observed value is, and an observed methodSettings entry *)
(* whose key no desired method_settings entry names gets no patch op; the  *)
(* update call, when one is made, carries the builder's list unchanged.    *)
(* The builder is called when process_request dispatches.                  *)
C23_OnlySuppliedFieldsPatched ==
    BuilderCase =>
        /\ pc = "dispatch" =>
              LET paths == PatchPaths(Patches)
              IN  /\ params.description = None => "/description" \notin paths
                  /\ mod = "stage" =>
                        /\ params.cache_cluster_enabled = None =>
                              "/cacheClusterEnabled" \notin paths
                        /\ params.cache_cluster_size = None =>
                              "/cacheClusterSize" \notin paths
                        /\ Found =>
                              LET ms == params.method_settings
                                  named == {(IF ms[i].method_name = <<"/", "t">>
                                             THEN "~1t" ELSE "~1t~1u")
                                            \o "/" \o ms[i].method_verb : i \in 1..Len(ms)}
                              IN  \A k \in DOMAIN Val(me).methodSettings \ named :
                                      ("/" \o k \o "/caching/enabled") \notin paths
        /\ \A i \in Issued(UpdateOp) : calls[i].args.patchOperations = Patches

\* the stage has a description, a cluster size and method settings the user
\* did not name; only cacheClusterEnabled is patched
C23_Witness ==
    /\ BuilderCase /\ mod = "stage" /\ Found /\ ~check_mode /\ Exited
    /\ params.description = None /\ params.cache_cluster_size = None
    /\ params.method_settings = <<>>
    /\ "description" \in DOMAIN Val(me) /\ "cacheClusterSize" \in DOMAIN Val(me)
    /\ "~1t/GET" \in DOMAIN Val(me).methodSettings
    /\ PatchPaths(Patches) = {"/cacheClusterEnabled"}
    /\ Issued("update_stage") = {2}

----------------------------------------------------------------------------
(* The model module's calls *)

\* the description of the observed model as _update_model reads it
ObservedDescription(m) ==
    IF "description" \in DOMAIN m THEN Some(m.description) ELSE None

(* C24: the patch list sent with update_model has a replace op for schema  *)
(* or description only if the desired value of that field differs from the *)
(* observed one; a field equal on both sides is not in the list.           *)
C24_ModelPatchOnlyDiffering ==
    (mod = "model" /\ LookupReturned /\ Found) =>
        \A i \in Issued("update_model") :
            LET ops == calls[i].args.patchOperations
            IN  \A j \in 1..Len(ops) :
                    /\ ops[j].path = "/schema" => params.schema # Some(Val(me).schema)
                    /\ ops[j].path = "/description" =>
                          params.description # ObservedDescription(Val(me))

\* the schema differs, the description does not, and update_model is issued
C24_Witness ==
    /\ mod = "model" /\ LookupReturned /\ Found /\ ~check_mode
    /\ params.schema = Some("s2") /\ Val(me).schema = "s1"
    /\ params.description = Some("d") /\ ObservedDescription(Val(me)) = Some("d")
    /\ Issued("update_model") = {2}
    /\ Len(calls[2].args.patchOperations) = 2
    /\ Exited

\* an argument of a provider call that carries a non-empty value
NonEmptyArg(a) == a # None /\ a # Some("")

(* C25: creating a model (state=present, lookup not-found, no dry run)     *)
(* issues exactly one create_model call, and the call is given an optional *)
(* field (content_type, schema, description) only if its supplied value is *)
(* non-empty: an unset content_type or schema and the default empty        *)
(* description are not passed.                                             *)
C25_ModelCreateArgsNonEmpty ==
    (mod = "model" /\ params.state = "present" /\ LookupReturned /\ ~Found
       /\ ~check_mode /\ Finished) =>
        /\ Issued("create_model") = {Len(calls)}
        /\ \A i \in Issued("create_model") :
              /\ NonEmptyArg(calls[i].args.contentType)
              /\ NonEmptyArg(calls[i].args.schema)
              /\ NonEmptyArg(calls[i].args.description)

\* content_type and schema are supplied, the description is the default '',
\* and create_model succeeds with description='' among its arguments
C25_Witness ==
    /\ mod = "model" /\ params.state = "present" /\ LookupReturned /\ ~Found
    /\ ~check_mode /\ Exited /\ result.changed
    /\ params.content_type # None /\ params.schema # None
    /\ params.description = Some("")
    /\ Issued("create_model") = {2}
    /\ calls[2].args.description = Some("")

----------------------------------------------------------------------------
(* Termination *)

\* an upper bound of the steps the invocation has left: every position of
\* process_request is passed at most once, and the walk of the resource
\* module makes one call for each missing segment
StepsLeft ==
    IF pc = "lookup" THEN 10
    ELSE IF pc = "dispatch" THEN 8
    ELSE IF pc = "creating" THEN 2 + (Len(params.name) - work.done)
    ELSE IF pc = "refetch" THEN 1
    ELSE 0

\* the provider calls one invocation can make: lookup, change, refetch, or
\* the lookup and one create for each segment of the path
CallBound == IF mod = "resource" THEN 1 + Len(params.name) ELSE 3

\* no call is issued a second time unless a change was made in between
NoRetry ==
    \A i, j \in 1..Len(calls) :
        (i < j /\ calls[i] = calls[j]) => \E k \in Mutations : i < k /\ k < j

(* C26: every invocation terminates after a bounded number of provider     *)
(* calls in exactly one outcome: a create, update, delete or no-op         *)
(* reported once through exit_json, or one fatal failure.  No provider     *)
(* call is repeated as a retry.  Termination is stated with a measure: an  *)
(* unfinished invocation can always take a step, every step of it lowers   *)
(* StepsLeft, the outcome is set by the step that finishes it, and nothing *)
(* follows the outcome but the next invocation.                            *)
C26_TerminatesInOneOutcome ==
    /\ [](/\ Len(calls) <= CallBound
          /\ NoRetry
          /\ outcome \in {"none", "exit_json", "fail_json", "exception"}
          /\ Finished <=> outcome # "none"
          /\ ~Finished => result = NoResult /\ ENABLED Next
          /\ outcome \in {"fail_json", "exception"} => result = NoResult
          /\ Exited => Cardinality({calls[i].op : i \in Mutations}) <= 1)
    /\ [][IF ~Finished
          THEN /\ runs' = runs
               /\ StepsLeft' < StepsLeft
               /\ Len(calls') \in {Len(calls), Len(calls) + 1}
          ELSE /\ runs' = runs + 1
               /\ ~Finished'
               /\ calls' = <<>>]_vars

\* the longest invocation: the resource module creates three segments
C26_Witness ==
    /\ mod = "resource" /\ Exited /\ ~check_mode /\ result.changed
    /\ Len(calls) = CallBound /\ Len(calls) = 4
    /\ Issued("create_resource") = {2, 3, 4}
    /\ StepsLeft = 0

----------------------------------------------------------------------------
(* The api key update *)

(* C27: the api key update touches only enabled and description.  Every    *)
(* patch op the builder makes, and every op sent with update_api_key, has  *)
(* the path /enabled or /description; when enabled and description are     *)
(* equal, a differing value or generate_distinct_id (the name is the       *)
(* lookup's key and cannot differ) brings no update call and the           *)
(* invocation reports changed=false.                                       *)
C27_ApiKeyUpdateOnlyEnabledDescription ==
    (mod = "api_key" /\ params.state = "present" /\ LookupReturned /\ Found) =>
        /\ Val(me).name = params.name
        /\ PatchPaths(Patches) \subseteq {"/enabled", "/description"}
        /\ \A i \in Issued("update_api_key") :
              \A j \in 1..Len(calls[i].args.patchOperations) :
                  calls[i].args.patchOperations[j].path \in {"/enabled", "/description"}
        /\ ApiKeyAttrsEqual(params, Val(me)) =>
              /\ Patches = <<>>
              /\ Mutations = {}
              /\ Finished => Exited /\ ~result.changed

\* the value differs and a distinct id is asked for, enabled and description
\* are equal: nothing is sent
C27_Witness ==
    /\ mod = "api_key" /\ params.state = "present" /\ LookupReturned /\ Found
    /\ ~check_mode /\ Exited /\ ~result.changed
    /\ params.value = Some("v") /\ Val(me).value = "v0"
    /\ params.generate_distinct_id
    /\ params.description = Some("d") /\ ApiKeyAttrsEqual(params, Val(me))
    /\ Len(calls) = 1

----------------------------------------------------------------------------
(* The comparison of the diff builders *)

\* the positions of a patch list that address the path
Ops(ps, path) == {i \in 1..Len(ps) : ps[i].path = path}

\* the rule of one field: desired is the text of the supplied value (None
\* when the parameter is not supplied), present tells whether the observed
\* object has the field, observed is the text of its value there
FieldRule(ps, path, desired, present, observed) ==
    desired # None =>
        LET ops == Ops(ps, path)
        IN  /\ Cardinality(ops) <= 1
            /\ \A i \in ops : ps[i] = [op |-> "replace", path |-> path,
                                       value |-> Val(desired)]
            /\ present => (ops # {} <=> Val(desired) # observed)
            /\ (~present /\ Val(desired) # "") => ops # {}

(* C28: the api key and the stage builder compare the texts of the values. *)
(* For a supplied field that the observed object has, a replace op is made *)
(* if and only if str(desired) differs from str(observed), and its value   *)
(* is str(desired), a boolean True being sent as 'True'; a supplied        *)
(* non-empty field that the observed object lacks always gets a replace op.*)
(* The builder is called when process_request dispatches; the update call  *)
(* carries its list.                                                       *)
C28_StringifiedComparison ==
    BuilderCase =>
        /\ pc = "dispatch" =>
              LET text(b) == IF b = Some(TRUE) THEN Some("True")
                             ELSE IF b = Some(FALSE) THEN Some("False") ELSE None
                  seen(b) == IF b THEN "True" ELSE "False"
                  m == IF me = None THEN <<>> ELSE Val(me)
                  has(f) == f \in DOMAIN m
                  ps == Patches
              IN  /\ FieldRule(ps, "/description", params.description,
                               has("description"),
                               IF has("description") THEN m.description ELSE "")
                  /\ mod = "api_key" =>
                        FieldRule(ps, "/enabled", text(Some(params.enabled)),
                                  has("enabled"), seen(m.enabled))
                  /\ mod = "stage" =>
                        /\ FieldRule(ps, "/cacheClusterEnabled",
                                     text(params.cache_cluster_enabled),
                                     has("cacheClusterEnabled"),
                                     IF has("cacheClusterEnabled")
                                     THEN seen(m.cacheClusterEnabled) ELSE "")
                        /\ FieldRule(ps, "/cacheClusterSize", params.cache_cluster_size,
                                     has("cacheClusterSize"),
                                     IF has("cacheClusterSize")
                                     THEN m.cacheClusterSize ELSE "")
        /\ \A i \in Issued(UpdateOp) :
              /\ calls[i].args.patchOperations = Patches
              /\ \A j \in 1..Len(calls[i].args.patchOperations) :
                    calls[i].args.patchOperations[j].value \in
                        {"True", "False", "", "d", "e", "0.5", "1.6"}

\* a stage with caching off and no cluster size: True is sent as 'True', the
\* missing size is sent, and the equal description is not
C28_Witness ==
    /\ BuilderCase /\ mod = "stage" /\ Found /\ ~check_mode /\ Exited
    /\ params.cache_cluster_enabled = Some(TRUE) /\ ~Val(me).cacheClusterEnabled
    /\ params.cache_cluster_size = Some("0.5") /\ "cacheClusterSize" \notin DOMAIN Val(me)
    /\ params.description = Some("d") /\ "description" \in DOMAIN Val(me)
    /\ params.method_settings = <<>>
    /\ Issued("update_stage") = {2}
    /\ calls[2].args.patchOperations =
          <<[op |-> "replace", path |-> "/cacheClusterEnabled", value |-> "True"],
            [op |-> "replace", path |-> "/cacheClusterSize", value |-> "0.5"]>>

----------------------------------------------------------------------------
(* changed and the mutating calls *)

(* C29: api key, model and stage module, no dry run.  An invocation that   *)
(* ends in exit_json reports changed=true if and only if it issued exactly *)
(* one mutating provider call (create, update or delete); no invocation,   *)
(* however it ends, issues more than one mutating call.                    *)
C29_ChangedIffOneMutation ==
    mod \in Updaters =>
        /\ Cardinality(Mutations) <= 1
        /\ (Exited /\ ~check_mode) => (result.changed <=> Cardinality(Mutations) = 1)

\* an api key is deleted: one delete_api_key, changed=true
C29_Witness ==
    /\ mod = "api_key" /\ params.state = "absent" /\ ~check_mode /\ Exited
    /\ result.changed
    /\ Mutations = {2} /\ calls[2].op = "delete_api_key"
    /\ hist.ran /\ hist.check_mode /\ hist.outcome = "exit_json" /\ hist.changed

----------------------------------------------------------------------------
(* Two invocations of apigw_api_key at once.  Each is a process of its own  *)
(* with its own client; they share nothing but the provider.  Here pc, me,  *)
(* params, check_mode, calls, outcome and result hold one value for each    *)
(* process, and every provider call is one step.                            *)

Procs == {1, 2}

\* state=present, and the fields the race does not turn on left out
ConcParams ==
    {p \in ApiKeyParams : p.state = "present" /\ p.value = None /\ ~p.generate_distinct_id}

\* a provider without a key of the name: its keys only match the name query
ConcAws ==
    {a \in InitAws("api_key") : \A i \in 1..Len(a.api_keys) : a.api_keys[i].name # "k"}

ConcInit ==
    /\ mod = "api_key"
    /\ aws \in ConcAws
    /\ params \in [Procs -> ConcParams]
    /\ check_mode \in [Procs -> BOOLEAN]
    /\ me = [i \in Procs |-> None]
    /\ pc = [i \in Procs |-> "lookup"]
    /\ calls = [i \in Procs |-> <<>>]
    /\ outcome = [i \in Procs |-> "none"]
    /\ result = [i \in Procs |-> NoResult]
    /\ work = None
    /\ runs = 1
    /\ hist = NoHist
    /\ answer = "none"

\* the process ends: exit_json, fail_json or an exception nothing catches
Proc_end(i, how, ch, obj) ==
    /\ pc' = [pc EXCEPT ![i] = "done"]
    /\ outcome' = [outcome EXCEPT ![i] = how]
    /\ result' = [result EXCEPT ![i] = [changed |-> ch, object |-> obj]]

Proc_call(i, c) == calls' = [calls EXCEPT ![i] = Append(@, c)]

Proc_retrieve_api_key(i) ==
    /\ pc[i] = "lookup"
    /\ Proc_call(i, Call("get_api_keys",
                         [nameQuery |-> params[i].name, includeValues |-> TRUE]))
    /\ \/ /\ me' = [me EXCEPT ![i] =
                      ApiGwApiKey_match(AwsGetApiKeys(params[i].name), params[i].name)]
          /\ pc' = [pc EXCEPT ![i] = "dispatch"]
          /\ UNCHANGED <<outcome, result>>
       \/ Proc_end(i, "fail_json", FALSE, None) /\ UNCHANGED me
       \/ Proc_end(i, "exception", FALSE, None) /\ UNCHANGED me
    /\ UNCHANGED <<mod, aws, params, check_mode, work, runs, hist, answer>>

Proc_create_api_key(i) ==
    /\ pc[i] = "dispatch"
    /\ ApiGwApiKey_branch(params[i], me[i]) = "create"
    /\ IF ~check_mode[i]
       THEN LET args == ApiGwApiKey_create_args(params[i])
                key == AwsNewApiKey(args, aws.next_id)
            IN  /\ Proc_call(i, Call("create_api_key", args))
                /\ \/ /\ aws' = [aws EXCEPT !.api_keys = Append(@, key),
                                            !.next_id = @ + 1]
                      /\ Proc_end(i, "exit_json", TRUE, Some(key))
                   \/ Proc_end(i, "fail_json", FALSE, None) /\ UNCHANGED aws
                   \/ Proc_end(i, "exception", FALSE, None) /\ UNCHANGED aws
       ELSE /\ Proc_end(i, "exit_json", TRUE, None)
            /\ UNCHANGED <<calls, aws>>
    /\ UNCHANGED <<mod, params, check_mode, me, work, runs, hist, answer>>

Proc_update_api_key(i) ==
    /\ pc[i] = "dispatch"
    /\ ApiGwApiKey_branch(params[i], me[i]) = "update"
    /\ LET patches == ApiGwApiKey_create_patches(params[i], Val(me[i]))
       IN  IF patches # <<>>
           THEN IF ~check_mode[i]
                THEN /\ Proc_call(i, ApiGwApiKey_update_call(Val(me[i]), patches))
                     /\ \/ Proc_end(i, "fail_json", FALSE, None) /\ UNCHANGED aws
                        \/ Proc_end(i, "exception", FALSE, None) /\ UNCHANGED aws
                        \/ /\ aws' = [aws EXCEPT !.api_keys =
                                 [j \in 1..Len(@) |->
                                    IF @[j].id = Val(me[i]).id
                                    THEN AwsPatchAllApiKey(@[j], patches) ELSE @[j]]]
                           /\ pc' = [pc EXCEPT ![i] = "refetch"]
                           /\ UNCHANGED <<outcome, result>>
                ELSE /\ Proc_end(i, "exit_json", TRUE,
                                 ApiGwApiKey_update_locals(me[i]).api_key)
                     /\ UNCHANGED <<calls, aws>>
           ELSE /\ Proc_end(i, "exit_json", ApiGwApiKey_update_locals(me[i]).changed,
                            ApiGwApiKey_update_locals(me[i]).api_key)
                /\ UNCHANGED <<calls, aws>>
    /\ UNCHANGED <<mod, params, check_mode, me, work, runs, hist, answer>>

Proc_update_refetch(i) ==
    /\ pc[i] = "refetch"
    /\ Proc_call(i, Call("get_api_keys",
                         [nameQuery |-> params[i].name, includeValues |-> TRUE]))
    /\ \/ Proc_end(i, "exit_json", TRUE,
                    ApiGwApiKey_match(AwsGetApiKeys(params[i].name), params[i].name))
       \/ Proc_end(i, "fail_json", FALSE, None)
       \/ Proc_end(i, "exception", FALSE, None)
    /\ UNCHANGED <<mod, aws, params, check_mode, me, work, runs, hist, answer>>

Proc_process_request(i) ==
    \/ Proc_retrieve_api_key(i)
    \/ Proc_create_api_key(i)
    \/ Proc_update_api_key(i)
    \/ Proc_update_refetch(i)

ConcNext == \E i \in Procs : Proc_process_request(i)

ConcSpec == ConcInit /\ [][ConcNext]_vars

\* the keys of the name the provider holds
KeysNamed(n) == {j \in 1..Len(aws.api_keys) : aws.api_keys[j].name = n}

(* C30: two invocations of the api key module with the same name and       *)
(* state=present, run as separate processes whose lookups and creates      *)
(* interleave in any order against a provider that starts without a key of *)
(* that name, never leave more than one key of that name at the provider.  *)
C30_ConcurrentCreatesLeaveOneKey ==
    Cardinality(KeysNamed("k")) <= 1

\* both processes looked up before either created: each reports the key it
\* made, and the provider holds two keys of the name
C30_Witness ==
    /\ \A i \in Procs : /\ pc[i] = "done" /\ outcome[i] = "exit_json"
                         /\ result[i].changed /\ me[i] = None
                         /\ Len(calls[i]) = 2 /\ calls[i][2].op = "create_api_key"
    /\ params[1] = params[2]
    /\ Cardinality(KeysNamed("k")) = 2
    /\ Val(result[1].object).id # Val(result[2].object).id

====
